---- MODULE Spec2Model ----
(***************************************************************************)
(* Model of the metadata harvest of anvil-controlled-access-file-transfer: *)
(* PortalCache.async_batch_get (cache.py), collect_metadata and            *)
(* make_sts_manifests_from_metadata (metadata.py).                         *)
(***************************************************************************)
EXTENDS Integers, Sequences, FiniteSets, TLC

\* ------------------------------------------------------------------------
\* Bounds of the model
\* ------------------------------------------------------------------------
MaxBatch == 2      \* longest at_ids a caller passes to async_batch_get
MaxCalls == 2      \* async_batch_get calls a caller makes in a row
MaxRefs == 2       \* references the file sets of the portal declare in all
MaxSeenFiles == 3  \* files in metadata['seen']['files'] given to the manifests
MaxHoles == 1      \* keys of an entity that are absent or null
MaxPolls == 3      \* calls of a kind wait_for_transfer_job makes to the service

\* ------------------------------------------------------------------------
\* Constants of the program
\* ------------------------------------------------------------------------
JobPollSeconds == 5        \* sts.py 177: time.sleep(5)
SleepTimeSeconds == 120    \* sts.py 255: 'sleep_time_seconds': 120
DeleteSleepSeconds == 15   \* sts.py 223: time.sleep(15)
PostSleepSeconds == 1      \* sts.py 232: time.sleep(1)
OkStatus == 200            \* metadata.py 169: response.status_code != 200

\* ------------------------------------------------------------------------
\* Identifiers (@id strings). An id is <<kind, n>>; IdLess is the string
\* order the portal paths have (the kinds' collection names sort as below).
\* ------------------------------------------------------------------------
FileSets == {<<"file_sets", 1>>, <<"file_sets", 2>>, <<"file_sets", 3>>}
Files == {<<"files", 1>>, <<"files", 2>>}
Samples == {<<"samples", 1>>}
Donors == {<<"donors", 1>>}
Ids == FileSets \cup Files \cup Samples \cup Donors

KindRank(k) == CASE k = "donors" -> 1
                 [] k = "file_sets" -> 2
                 [] k = "files" -> 3
                 [] k = "samples" -> 4

IdLess(a, b) == \/ KindRank(a[1]) < KindRank(b[1])
                \/ a[1] = b[1] /\ a[2] < b[2]

Range(s) == {s[i] : i \in DOMAIN s}

InSeq(x, s) == \E i \in DOMAIN s : s[i] = x

\* Sequences over S of length at most n.
SeqsUpTo(S, n) == UNION {[1..k -> S] : k \in 0..n}

\* The empty dict.
EmptyDict == [x \in {} |-> "fetched"]

\* dict.update: the keys of r are added to d, overwriting.
MutDictUpdateReplace(d, r) == r
DictUpdate(d, r) ==
    [x \in DOMAIN d \cup DOMAIN r |-> IF x \in DOMAIN r THEN r[x] ELSE d[x]]

VARIABLES
    exists,        \* portal: the ids the remote resolves by get_by_id
    local,         \* PortalCache.local: dict from @id to the entity cached
    tasks,         \* every get_by_id task started so far, in start order
    nCalls,        \* the number of async_batch_get calls made so far
    prevCall,      \* the call before the current one: its ids, load_cache
                   \* and how it ended
    bgPc,          \* where the current async_batch_get call is
    at_ids,        \* its argument at_ids
    load_cache,    \* its argument load_cache
    cached_ids,    \* its local cached_ids
    gatherExc,     \* the exception the gather future holds, "none" if none
    results,       \* the dict the call returned
    bgError,       \* the exception the call raised, "none" if none
    localAtCall,   \* local as it was when the current call started
    \* the portal snapshot collect_metadata walks
    initial,       \* initial files query: file @id -> its file_set
    refs,          \* <<fs, x>>: file set fs lists x in the field of x's kind
    searchable,    \* the samples the Sample search returns
    \* collect_metadata
    pc,
    files_seen,
    samples_seen,
    donors_seen,
    file_sets_seen,
    file_sets,     \* the work set
    fs,            \* the file set being expanded
    metadata,      \* the value returned
    failure,       \* the exception collect_metadata ended with, if any
    \* make_sts_manifests_from_metadata
    s3_uri,        \* local[f]['s3_uri'] of the files seen, as characters
    manifests,     \* the dict returned: bucket -> its paths joined by "\n"
    \* add_fields_to_row
    name,          \* its argument name: the kind of the table
    item,          \* its argument item: the entity, key -> value
    fields,        \* its argument fields
    row,           \* its argument row: the cells so far
    fieldIdx,      \* the index in fields of the field the loop is at
    rowPc,         \* where the call is
    rowError,      \* the exception it raised, "none" if none
    rowsDone,      \* make_data_tables: the rows it has started
    \* wait_for_transfer_job and the transfer service
    waitPc,        \* where the call is
    jobHasOperation, \* the job has a latest_operation_name
    opDone,        \* the latest operation is done
    opStatus,      \* its metadata.status
    operation,     \* the operation as the last get_operation returned it
    polls,         \* the get_operation calls made
    jobPolls,      \* the get_transfer_job calls made
    sleeps,        \* the seconds of the sleeps since the last get_operation
    waitError,     \* the exception the call raised, "none" if none
    \* upload_data_tables and the workspace
    data_tables,   \* its argument data_tables: the tsvs, in the dict's order
    overwrite_tsvs, \* its argument overwrite_tsvs
    upPc,          \* where the call is
    upIdx,         \* the index of the table the loop is at
    requests,      \* the requests the session has sent, in order
    upSleeps,      \* the seconds of the sleeps made, in order
    upError,       \* the exception the call raised, "none" if none
    \* main and the transfer service
    transfer_job_props, \* the props made so far, each named by its bucket
    props,         \* the loop variable props, "unbound" before the first
    bucketTsvs,    \* the manifest bucket: location -> the tsv uploaded
    jobs,          \* the transfer jobs created: bucket -> latest operation
    loopIdx,       \* the index in manifests.items() the loop is at
    waited,        \* the props wait_for_transfer_job has returned for
    mainError,     \* the exception main ended with, "none" if none
    \* make_data_tables
    tsvs           \* files_tsv, file_sets_tsv, samples_tsv, donors_tsv so
                   \* far: table name -> its lines, each a list of cells

\* The state of the async_batch_get calls, all but the cache itself.
callVars == <<exists, tasks, nCalls, prevCall, bgPc, at_ids, load_cache,
              cached_ids, gatherExc, results, bgError, localAtCall>>

cacheVars == <<local, callVars>>

portalVars == <<initial, refs, searchable>>

collectVars == <<pc, files_seen, samples_seen, donors_seen, file_sets_seen,
                 file_sets, fs, metadata, failure>>

manifestVars == <<s3_uri, manifests>>

rowVars == <<name, item, fields, row, fieldIdx, rowPc, rowError, rowsDone>>

waitVars == <<waitPc, jobHasOperation, opDone, opStatus, operation, polls,
              jobPolls, sleeps, waitError>>

uploadVars == <<data_tables, overwrite_tsvs, upPc, upIdx, requests, upSleeps,
                upError>>

mainVars == <<transfer_job_props, props, bucketTsvs, jobs, loopIdx, waited,
              mainError>>

laterVars == <<uploadVars, mainVars, tsvs>>

\* The state of what main runs after collect_metadata.
downstreamVars == <<manifestVars, rowVars, waitVars, laterVars>>

vars == <<cacheVars, portalVars, collectVars, downstreamVars>>

\* No add_fields_to_row call is in progress.
RowsIdle ==
    /\ name = "none"
    /\ item = <<>>
    /\ fields = <<>>
    /\ row = <<>>
    /\ fieldIdx = 0
    /\ rowPc = "idle"
    /\ rowError = "none"
    /\ rowsDone = 0

\* No transfer job is waited for.
WaitIdle ==
    /\ waitPc = "idle"
    /\ jobHasOperation = FALSE
    /\ opDone = FALSE
    /\ opStatus = "QUEUED"
    /\ operation = [done |-> FALSE, status |-> "QUEUED"]
    /\ polls = 0
    /\ jobPolls = 0
    /\ sleeps = <<>>
    /\ waitError = "none"

\* No upload_data_tables call was made.
UploadIdle ==
    /\ data_tables = <<>>
    /\ overwrite_tsvs = FALSE
    /\ upPc = "idle"
    /\ upIdx = 0
    /\ requests = <<>>
    /\ upSleeps = <<>>
    /\ upError = "none"

\* main has created no transfer job.
MainIdle ==
    /\ transfer_job_props = <<>>
    /\ props = "unbound"
    /\ bucketTsvs = EmptyDict
    /\ jobs = EmptyDict
    /\ loopIdx = 0
    /\ waited = <<>>
    /\ mainError = "none"

\* make_data_tables has made no table.
TablesIdle == tsvs = EmptyDict

NoMetadata == [files |-> <<>>, file_sets |-> <<>>, samples |-> <<>>,
               donors |-> <<>>]

\* ------------------------------------------------------------------------
\* PortalCache.async_batch_get
\* ------------------------------------------------------------------------

\* cache.py 42-46: the at_ids found in local, in order, duplicates kept.
MutCachedIdsNone(loc, ids) == <<>>
CachedIds(loc, ids) == SelectSeq(ids, LAMBDA a : a \in DOMAIN loc)

\* cache.py 51-55: one get_by_id per element of at_ids not in cached_ids.
MutToFetchAll(ids, cached) == ids
ToFetch(ids, cached) == SelectSeq(ids, LAMBDA a : ~InSeq(a, cached))

\* cache.py 16-18: the key of the pair get_by_id returns is the at_id asked.
MutFetchKeyCanonical(at_id) ==
    <<at_id[1], IF at_id[2] = 1 THEN 2 ELSE 1>>
FetchKey(at_id) == at_id

\* cache.py 16-18: the value is the entity as fetched by id.
FetchValue(at_id) == "fetched"

NewTasks(n, ids) ==
    [i \in 1..Len(ids) |-> [call |-> n, at_id |-> ids[i], st |-> "pending"]]

\* The tasks of earlier calls that have ended are garbage; those still
\* pending stay scheduled on the event loop.
StillPending(ts) == SelectSeq(ts, LAMBDA t : t.st = "pending")

\* A task that ends after its call ended has nobody awaiting it: its
\* result or exception is dropped with it.
Settle(ts, i, st, awaited) ==
    IF awaited
    THEN [ts EXCEPT ![i].st = st]
    ELSE [j \in 1..(Len(ts) - 1) |-> IF j < i THEN ts[j] ELSE ts[j + 1]]

TasksOf(n) == {i \in DOMAIN tasks : tasks[i].call = n}

CurCall == nCalls

Awaited(i) == bgPc = "gather" /\ tasks[i].call = CurCall

NoCall == [ids |-> {}, load_cache |-> TRUE, status |-> "none"]

\* cache.py 48-58: the pairs the tasks returned, made a dict (a later pair
\* overwrites an earlier one of the same key).
GatheredDict(ts) ==
    [k \in {FetchKey(ts[i].at_id) : i \in {j \in DOMAIN ts : ts[j].st = "done"}}
        |-> FetchValue(k)]

\* cache.py 60: never merging would leave the misses uncached.
MutShouldLoadNever(res, lc) == FALSE
\* cache.py 16-18: get_by_id itself leaves the cache alone.
MutAfterFetchStore(loc, at_id) ==
    DictUpdate(loc, [k \in {FetchKey(at_id)} |-> FetchValue(at_id)])
AfterFetch(loc, at_id) == loc

\* cache.py 49: gather's future has a result once every awaitable has one.
MutAllFetchedAny(n) == \E i \in TasksOf(n) : tasks[i].st = "done"
AllFetched(n) == \A i \in TasksOf(n) : tasks[i].st = "done"

\* cache.py 60: the cache is updated when there are results and load_cache.
MutShouldLoadAlways(res, lc) == res # EmptyDict
ShouldLoad(res, lc) == res # EmptyDict /\ lc

\* cache.py 63-69: the cached entities are added to the results.
MutWithCachedLeftOut(res, loc, cached) == res
WithCached(res, loc, cached) ==
    IF cached # <<>>
    THEN DictUpdate(res, [k \in Range(cached) |-> loc[k]])
    ELSE res

\* cache.py 70: the integrity check.
LengthMismatch(ids, res) ==
    Cardinality(Range(ids)) # Cardinality(DOMAIN res)

\* cache.py 41-57: the call computes cached_ids and starts the fetches,
\* then awaits the gather.
Call(ids, lc) ==
    /\ bgPc \in {"idle", "returned", "raised"}
    /\ nCalls < MaxCalls
    /\ at_ids' = ids
    /\ load_cache' = lc
    /\ cached_ids' = CachedIds(local, ids)
    /\ tasks' = StillPending(tasks)
                   \o NewTasks(nCalls + 1,
                               ToFetch(ids, CachedIds(local, ids)))
    /\ nCalls' = nCalls + 1
    /\ prevCall' = [ids |-> Range(at_ids), load_cache |-> load_cache,
                    status |-> IF nCalls = 0 THEN "none" ELSE bgPc]
    /\ gatherExc' = "none"
    /\ results' = EmptyDict
    /\ bgError' = "none"
    /\ localAtCall' = local
    /\ bgPc' = "gather"
    /\ UNCHANGED <<exists, local, portalVars, collectVars,
                   downstreamVars>>

\* cache.py 17-18: a get_by_id task gets its entity.
FetchDone(i) ==
    /\ tasks[i].st = "pending"
    /\ tasks[i].at_id \in exists
    /\ tasks' = Settle(tasks, i, "done", Awaited(i))
    /\ local' = AfterFetch(local, tasks[i].at_id)
    /\ UNCHANGED <<exists, nCalls, prevCall, bgPc, at_ids, load_cache,
                   cached_ids, gatherExc, results, bgError, localAtCall,
                   portalVars, collectVars, downstreamVars>>

\* cache.py 17: api.get_by_id raises: the transport failed, or the remote
\* does not resolve the id. The first exception of a gather that is still
\* awaited becomes the gather's exception.
FetchFail(i, kind) ==
    /\ tasks[i].st = "pending"
    /\ kind = "notfound" => tasks[i].at_id \notin exists
    /\ tasks' = Settle(tasks, i, kind, Awaited(i))
    /\ gatherExc' = IF Awaited(i) /\ gatherExc = "none"
                    THEN kind ELSE gatherExc
    /\ UNCHANGED <<exists, local, nCalls, prevCall, bgPc, at_ids, load_cache,
                   cached_ids, results, bgError, localAtCall,
                   portalVars, collectVars, downstreamVars>>

\* cache.py 48-74: every awaitable has its result: the gather returns the
\* list of pairs and the rest of the function runs without suspending.
GatherReturn ==
    /\ bgPc = "gather"
    /\ AllFetched(CurCall)
    /\ LET fetched ==
               GatheredDict(SelectSeq(tasks, LAMBDA t : t.call = CurCall))
           loc1 == IF ShouldLoad(fetched, load_cache)
                   THEN DictUpdate(local, fetched) ELSE local
           res == WithCached(fetched, loc1, cached_ids)
       IN /\ local' = loc1
          /\ IF LengthMismatch(at_ids, res)
             THEN /\ bgPc' = "raised"
                  /\ bgError' = "mismatch"
                  /\ results' = EmptyDict
             ELSE /\ bgPc' = "returned"
                  /\ bgError' = "none"
                  /\ results' = res
    /\ UNCHANGED <<exists, tasks, nCalls, prevCall, at_ids, load_cache,
                   cached_ids, gatherExc, localAtCall,
                   portalVars, collectVars, downstreamVars>>

\* cache.py 49: the gather's first exception is raised in the caller; the
\* other awaitables are not cancelled.
GatherRaise ==
    /\ bgPc = "gather"
    /\ gatherExc # "none"
    /\ bgPc' = "raised"
    /\ bgError' = gatherExc
    /\ UNCHANGED <<exists, local, tasks, nCalls, prevCall, at_ids, load_cache,
                   cached_ids, gatherExc, results, localAtCall,
                   portalVars, collectVars, downstreamVars>>

\* The ids a caller passes in a batch.
BatchIds == {<<"file_sets", 1>>, <<"files", 1>>}

InitCache ==
    /\ exists \in {Ids, Ids \ {<<"files", 1>>}}
    /\ local \in {[x \in S |-> "searched"] : S \in SUBSET {<<"file_sets", 1>>}}
    /\ tasks = <<>>
    /\ nCalls = 0
    /\ prevCall = NoCall
    /\ bgPc = "idle"
    /\ at_ids = <<>>
    /\ load_cache = TRUE
    /\ cached_ids = <<>>
    /\ gatherExc = "none"
    /\ results = EmptyDict
    /\ bgError = "none"
    /\ localAtCall = local
    /\ initial = EmptyDict
    /\ refs = {}
    /\ searchable = {}
    /\ pc = "idle"
    /\ files_seen = {}
    /\ samples_seen = {}
    /\ donors_seen = {}
    /\ file_sets_seen = {}
    /\ file_sets = {}
    /\ fs = <<"file_sets", 1>>
    /\ metadata = NoMetadata
    /\ failure = "none"
    /\ s3_uri = EmptyDict
    /\ manifests = EmptyDict
    /\ RowsIdle
    /\ UploadIdle
    /\ MainIdle
    /\ TablesIdle
    /\ WaitIdle

NextCache ==
    \/ \E ids \in SeqsUpTo(BatchIds, MaxBatch), lc \in BOOLEAN : Call(ids, lc)
    \/ \E i \in DOMAIN tasks : FetchDone(i)
    \/ \E i \in DOMAIN tasks, kind \in {"transport", "notfound"} :
          FetchFail(i, kind)
    \/ GatherReturn
    \/ GatherRaise

SpecCache == InitCache /\ [][NextCache]_vars

\* ------------------------------------------------------------------------
\* collect_metadata
\* ------------------------------------------------------------------------

\* The subsets of S with at most n elements.
RECURSIVE SubsetsUpTo(_, _)
SubsetsUpTo(S, n) ==
    IF n = 0 THEN {{}}
    ELSE LET smaller == SubsetsUpTo(S, n - 1)
         IN smaller \cup {T \cup {x} : T \in smaller, x \in S}

\* metadata.py 278-281: list(sorted(set of @ids)).
RECURSIVE SortIds(_)
SortIds(S) ==
    IF S = {} THEN <<>>
    ELSE LET m == CHOOSE x \in S : \A y \in S : x = y \/ IdLess(x, y)
         IN <<m>> \o SortIds(S \ {m})

\* metadata.py 278-281: list(sorted(seen)).
MutSortedListReversed(S) ==
    [i \in 1..Cardinality(S) |-> SortIds(S)[Cardinality(S) + 1 - i]]
SortedList(S) == SortIds(S)

\* The fields of the file set entity x of the portal; a field with no
\* element is a key the entity does not have.
InputFileSets(x) == {t \in FileSets : <<x, t>> \in refs}
MutFilesOfReadsSamples(x) == {t \in Samples : <<x, t>> \in refs}
FilesOf(x) == {t \in Files : <<x, t>> \in refs}
SamplesOf(x) == {t \in Samples : <<x, t>> \in refs}
DonorsOf(x) == {t \in Donors : <<x, t>> \in refs}

\* metadata.py 251-255: the @graph of the Sample search by file set.
MutSampleSearchOwnList(x) == SamplesOf(x)
MutSampleSearchEmpty(x) == {}
SampleSearch(x) == SamplesOf(x) \cap searchable

\* metadata.py 214-217: the file sets of the initial files.
MutInitialFrontierOfOneFile ==
    IF DOMAIN initial = {} THEN {}
    ELSE {initial[CHOOSE f \in DOMAIN initial : TRUE]}
InitialFrontier == {initial[f] : f \in DOMAIN initial}

\* metadata.py 228: file_sets_seen.add(fs).
MutMarkSeenNot(seen, x) == seen
MarkSeen(seen, x) == seen \cup {x}

\* metadata.py 237-239: the input file sets not seen yet join the work set.
MutEnqueueSeenOnly(frontier, seen, ifs) ==
    frontier \cup {i \in ifs : i \in seen}
MutEnqueueSeenToo(frontier, seen, ifs) == frontier \cup ifs
MutEnqueueReplace(frontier, seen, ifs) == {i \in ifs : i \notin seen}
Enqueue(frontier, seen, ifs) == frontier \cup {i \in ifs : i \notin seen}

\* metadata.py 246-248, 258-259, 266-268: add the ids not seen yet.
MutAddSeenReplace(seen, new) == new
AddSeen(seen, new) == seen \cup {x \in new : x \notin seen}

\* async_batch_get run to its end with every fetch succeeding (cache.py
\* 41-74): the fetched pairs, local afterwards, the dict returned.
BatchFetched(loc, ids) ==
    GatheredDict([i \in DOMAIN ToFetch(ids, CachedIds(loc, ids)) |->
                    [call |-> 0, at_id |-> ToFetch(ids, CachedIds(loc, ids))[i],
                     st |-> "done"]])

MutBatchLocalUnchanged(loc, ids, lc) == loc
BatchLocal(loc, ids, lc) ==
    IF ShouldLoad(BatchFetched(loc, ids), lc)
    THEN DictUpdate(loc, BatchFetched(loc, ids)) ELSE loc

BatchResults(loc, ids, lc) ==
    WithCached(BatchFetched(loc, ids), BatchLocal(loc, ids, lc),
               CachedIds(loc, ids))

\* The call returns: every id it fetches resolves and the check passes.
BatchReturns(loc, ids, lc) ==
    /\ Range(ToFetch(ids, CachedIds(loc, ids))) \subseteq exists
    /\ ~LengthMismatch(ids, BatchResults(loc, ids, lc))

\* metadata.py 206-218: the initial files query, the files put in the cache
\* and in files_seen, the work set derived.
InitialQuery ==
    /\ pc = "start"
    /\ local' = DictUpdate(local, [f \in DOMAIN initial |-> "searched"])
    /\ files_seen' = DOMAIN initial
    /\ file_sets' = InitialFrontier
    /\ pc' = "warm"
    /\ UNCHANGED <<callVars, portalVars, downstreamVars,
                   samples_seen, donors_seen, file_sets_seen, fs,
                   metadata, failure>>

\* metadata.py 220-223: the file sets are loaded into the cache. The second
\* positional argument (the api object) lands in load_cache and is truthy.
WarmCache ==
    /\ pc = "warm"
    /\ BatchReturns(local, SortIds(file_sets), TRUE)
    /\ local' = BatchLocal(local, SortIds(file_sets), TRUE)
    /\ pc' = "loop"
    /\ UNCHANGED <<callVars, portalVars, downstreamVars,
                   files_seen, samples_seen, donors_seen,
                   file_sets_seen, file_sets, fs, metadata, failure>>

\* metadata.py 224-228: pop any file set; skip it if seen, else mark it.
Pop ==
    /\ pc = "loop"
    /\ \E x \in file_sets :
          /\ file_sets' = file_sets \ {x}
          /\ IF x \in file_sets_seen
             THEN UNCHANGED <<pc, file_sets_seen, fs>>
             ELSE /\ file_sets_seen' = MarkSeen(file_sets_seen, x)
                  /\ fs' = x
                  /\ pc' = "get_fs"
    /\ UNCHANGED <<cacheVars, portalVars, downstreamVars, files_seen,
                   samples_seen,
                   donors_seen, metadata, failure>>

\* metadata.py 229-239: the full file set by batch_get of [fs]; its
\* input_file_sets not seen yet are added to the work set.
GetFileSet ==
    /\ pc = "get_fs"
    /\ BatchReturns(local, <<fs>>, TRUE)
    /\ fs \in DOMAIN BatchResults(local, <<fs>>, TRUE)
    /\ local' = BatchLocal(local, <<fs>>, TRUE)
    /\ file_sets' = IF InputFileSets(fs) # {}
                    THEN Enqueue(file_sets, file_sets_seen, InputFileSets(fs))
                    ELSE file_sets
    /\ pc' = "files"
    /\ UNCHANGED <<callVars, portalVars, downstreamVars,
                   files_seen, samples_seen, donors_seen,
                   file_sets_seen, fs, metadata, failure>>

\* metadata.py 240-248: the files of the file set.
GetFiles ==
    /\ pc = "files"
    /\ IF FilesOf(fs) # {}
       THEN /\ BatchReturns(local, SortIds(FilesOf(fs)), TRUE)
            /\ local' = BatchLocal(local, SortIds(FilesOf(fs)), TRUE)
            /\ files_seen' = AddSeen(files_seen, FilesOf(fs))
       ELSE UNCHANGED <<local, files_seen>>
    /\ pc' = "samples"
    /\ UNCHANGED <<callVars, portalVars, downstreamVars,
                   samples_seen, donors_seen, file_sets_seen,
                   file_sets, fs, metadata, failure>>

\* metadata.py 249-259: the samples, by a search on the file set.
GetSamples ==
    /\ pc = "samples"
    /\ IF SamplesOf(fs) # {}
       THEN /\ local' = DictUpdate(local,
                                   [x \in SampleSearch(fs) |-> "searched"])
            /\ samples_seen' = AddSeen(samples_seen, SampleSearch(fs))
       ELSE UNCHANGED <<local, samples_seen>>
    /\ pc' = "donors"
    /\ UNCHANGED <<callVars, portalVars, downstreamVars,
                   files_seen, donors_seen, file_sets_seen,
                   file_sets, fs, metadata, failure>>

\* metadata.py 260-268: the donors of the file set.
GetDonors ==
    /\ pc = "donors"
    /\ IF DonorsOf(fs) # {}
       THEN /\ BatchReturns(local, SortIds(DonorsOf(fs)), TRUE)
            /\ local' = BatchLocal(local, SortIds(DonorsOf(fs)), TRUE)
            /\ donors_seen' = AddSeen(donors_seen, DonorsOf(fs))
       ELSE UNCHANGED <<local, donors_seen>>
    /\ pc' = "loop"
    /\ UNCHANGED <<callVars, portalVars, downstreamVars,
                   files_seen, samples_seen, file_sets_seen,
                   file_sets, fs, metadata, failure>>

\* metadata.py 224, 269-284: the work set is empty; the sorted lists.
Finish ==
    /\ pc = "loop"
    /\ file_sets = {}
    /\ metadata' = [files |-> SortedList(files_seen),
                    file_sets |-> SortedList(file_sets_seen),
                    samples |-> SortedList(samples_seen),
                    donors |-> SortedList(donors_seen)]
    /\ pc' = "done"
    /\ UNCHANGED <<cacheVars, portalVars, downstreamVars, files_seen,
                   samples_seen,
                   donors_seen, file_sets_seen, file_sets, fs, failure>>

\* The ids the remote call of the current step fetches by id.
StepFetches ==
    CASE pc = "warm" ->
           Range(ToFetch(SortIds(file_sets),
                         CachedIds(local, SortIds(file_sets))))
      [] pc = "get_fs" -> Range(ToFetch(<<fs>>, CachedIds(local, <<fs>>)))
      [] pc = "files" ->
           Range(ToFetch(SortIds(FilesOf(fs)),
                         CachedIds(local, SortIds(FilesOf(fs)))))
      [] pc = "donors" ->
           Range(ToFetch(SortIds(DonorsOf(fs)),
                         CachedIds(local, SortIds(DonorsOf(fs)))))
      [] OTHER -> {}

\* metadata.py 200-284: collect_metadata has no try: the exception of a
\* remote call ends the coroutine, whatever the step.
MutAfterFailureNextStep(step) ==
    CASE step = "start" -> "warm"
      [] step = "warm" -> "loop"
      [] step = "get_fs" -> "files"
      [] step = "files" -> "samples"
      [] step = "samples" -> "donors"
      [] OTHER -> "loop"
AfterFailure(step) == "failed"

\* metadata.py 206-210, 220, 230, 242, 252, 262: a remote call of the step
\* raises (a search, or a fetch of a batch_get); nothing catches it.
RemoteCallFails ==
    /\ \/ pc = "start"
       \/ pc = "samples" /\ SamplesOf(fs) # {}
       \/ StepFetches # {}
    /\ failure' = IF StepFetches # {} THEN "fetch" ELSE "search"
    /\ pc' = AfterFailure(pc)
    /\ UNCHANGED <<cacheVars, portalVars, downstreamVars, files_seen,
                   samples_seen,
                   donors_seen, file_sets_seen, file_sets, fs, metadata>>

\* metadata.py 225-268: one pass of the loop body for the popped file set
\* x, every remote call succeeding, on the work set and the seen-sets.
Expand(w, x) ==
    IF x \in w.file_sets_seen
    THEN [w EXCEPT !.file_sets = w.file_sets \ {x}]
    ELSE [file_sets |->
              IF InputFileSets(x) # {}
              THEN Enqueue(w.file_sets \ {x}, MarkSeen(w.file_sets_seen, x),
                           InputFileSets(x))
              ELSE w.file_sets \ {x},
          file_sets_seen |-> MarkSeen(w.file_sets_seen, x),
          files_seen |-> AddSeen(w.files_seen, FilesOf(x)),
          samples_seen |->
              IF SamplesOf(x) # {}
              THEN AddSeen(w.samples_seen, SampleSearch(x))
              ELSE w.samples_seen,
          donors_seen |-> AddSeen(w.donors_seen, DonorsOf(x))]

\* metadata.py 202-217: the walk's state when the loop is entered.
LoopEntry ==
    [file_sets |-> InitialFrontier, file_sets_seen |-> {},
     files_seen |-> DOMAIN initial, samples_seen |-> {}, donors_seen |-> {}]

\* metadata.py 224-268: the loop run with pop always returning the least
\* element of the work set.
RECURSIVE DrainLeastFirst(_)
DrainLeastFirst(w) ==
    IF w.file_sets = {} THEN w
    ELSE DrainLeastFirst(Expand(w, SortIds(w.file_sets)[1]))

AllRefs == FileSets \X Ids

InitCollect ==
    /\ exists = Ids
    /\ local \in {EmptyDict, [x \in {<<"file_sets", 1>>} |-> "searched"]}
    /\ tasks = <<>>
    /\ nCalls = 0
    /\ prevCall = NoCall
    /\ bgPc = "idle"
    /\ at_ids = <<>>
    /\ load_cache = TRUE
    /\ cached_ids = <<>>
    /\ gatherExc = "none"
    /\ results = EmptyDict
    /\ bgError = "none"
    /\ localAtCall = EmptyDict
    /\ initial \in UNION {[D -> FileSets] : D \in SUBSET Files}
    /\ refs \in SubsetsUpTo(AllRefs, MaxRefs)
    /\ searchable \in {Samples, {}}
    /\ pc = "start"
    /\ files_seen = {}
    /\ samples_seen = {}
    /\ donors_seen = {}
    /\ file_sets_seen = {}
    /\ file_sets = {}
    /\ fs = <<"file_sets", 1>>
    /\ metadata = NoMetadata
    /\ failure = "none"
    /\ s3_uri = EmptyDict
    /\ manifests = EmptyDict
    /\ RowsIdle
    /\ UploadIdle
    /\ MainIdle
    /\ TablesIdle
    /\ WaitIdle

NextCollect ==
    \/ InitialQuery
    \/ WarmCache
    \/ Pop
    \/ GetFileSet
    \/ GetFiles
    \/ GetSamples
    \/ GetDonors
    \/ Finish
    \/ RemoteCallFails

SpecCollect == InitCollect /\ [][NextCollect]_vars

\* The portals whose file sets declare input_file_sets only: the graphs of
\* file sets the loop walks, cycles included.
InitCollectGraphs ==
    /\ InitCollect
    /\ refs \subseteq FileSets \X FileSets
    /\ local = EmptyDict
    /\ searchable = Samples

\* The event loop keeps running the coroutine and every remote call ends,
\* by returning or by raising.
SpecCollectFair ==
    InitCollectGraphs /\ [][NextCollect]_vars /\ WF_vars(NextCollect)

\* ------------------------------------------------------------------------
\* make_sts_manifests_from_metadata
\* ------------------------------------------------------------------------
\* A string is the sequence of its characters; "s3://" stands for that
\* substring.

\* The order of the characters' code points: "\n" < "/" < "A" < "B" < "x".
CharRank(c) == CASE c = "\n" -> 10
                 [] c = "/" -> 47
                 [] c = "s3://" -> 115
                 [] c = "A" -> 65
                 [] c = "B" -> 66
                 [] c = "x" -> 120
                 [] c = "y" -> 121
                 [] c = "z" -> 122

\* str.__lt__: the first differing character decides, a proper prefix is
\* less.
StrLess(a, b) ==
    \E k \in 1..(Len(b)) :
        /\ \A i \in 1..(k - 1) : i <= Len(a) /\ a[i] = b[i]
        /\ \/ k = Len(a) + 1
           \/ k <= Len(a) /\ CharRank(a[k]) < CharRank(b[k])

\* The order of the (bucket, path) tuples.
TupleLess(t, u) ==
    \/ StrLess(t[1], u[1])
    \/ t[1] = u[1] /\ StrLess(t[2], u[2])

\* The index of the first c in s, 0 if there is none.
FirstIndex(s, c) ==
    IF \E i \in DOMAIN s : s[i] = c
    THEN CHOOSE i \in DOMAIN s : s[i] = c /\ \A j \in 1..(i - 1) : s[j] # c
    ELSE 0

\* s.split(c, 1): at most one split, at the first c.
SplitOnce(s, c) ==
    IF FirstIndex(s, c) = 0 THEN <<s>>
    ELSE <<SubSeq(s, 1, FirstIndex(s, c) - 1),
           SubSeq(s, FirstIndex(s, c) + 1, Len(s))>>

\* s.split(c): split at every c.
RECURSIVE SplitAll(_, _)
SplitAll(s, c) ==
    IF FirstIndex(s, c) = 0 THEN <<s>>
    ELSE <<SubSeq(s, 1, FirstIndex(s, c) - 1)>>
         \o SplitAll(SubSeq(s, FirstIndex(s, c) + 1, Len(s)), c)

\* metadata.py 287-288: s3_uri.split('s3://')[1].split('/', 1).
MutParseSplitEverySlash(uri) ==
    <<SplitAll(SplitAll(uri, "s3://")[2], "/")[1],
      SplitAll(SplitAll(uri, "s3://")[2], "/")[2]>>
parse_s3_uri_into_bucket_and_path(uri) ==
    SplitOnce(SplitAll(uri, "s3://")[2], "/")

\* metadata.py 292-301: list(sorted(set of tuples)).
RECURSIVE SortTuples(_)
SortTuples(S) ==
    IF S = {} THEN <<>>
    ELSE LET m == CHOOSE t \in S : \A u \in S : t = u \/ TupleLess(t, u)
         IN <<m>> \o SortTuples(S \ {m})

\* metadata.py 302-306: the paths appended to their bucket's list, in the
\* order of the sorted tuples.
RECURSIVE GroupByBucket(_, _)
GroupByBucket(tuples, grouped) ==
    IF tuples = <<>> THEN grouped
    ELSE LET bucket == tuples[1][1]
             path == tuples[1][2]
             g1 == IF bucket \notin DOMAIN grouped
                   THEN DictUpdate(grouped, [b \in {bucket} |-> <<>>])
                   ELSE grouped
         IN GroupByBucket(Tail(tuples),
                          [g1 EXCEPT ![bucket] = Append(g1[bucket], path)])

\* '\n'.join(v).
RECURSIVE JoinLines(_)
JoinLines(v) ==
    IF v = <<>> THEN <<>>
    ELSE IF Len(v) = 1 THEN v[1]
    ELSE v[1] \o <<"\n">> \o JoinLines(Tail(v))

\* metadata.py 291-312.
make_sts_manifests_from_metadata(md, uris) ==
    LET s3_uris == SortTuples({parse_s3_uri_into_bucket_and_path(uris[f]) :
                                  f \in Range(md.files)})
        grouped_by_bucket == GroupByBucket(s3_uris, EmptyDict)
    IN [k \in DOMAIN grouped_by_bucket |-> JoinLines(grouped_by_bucket[k])]

MakeManifests ==
    /\ pc = "manifests"
    /\ manifests' = make_sts_manifests_from_metadata(metadata, s3_uri)
    /\ pc' = "manifests_made"
    /\ UNCHANGED <<cacheVars, portalVars, s3_uri, files_seen, samples_seen,
                   donors_seen, file_sets_seen, file_sets, fs, metadata,
                   failure, rowVars, waitVars, laterVars>>

\* The storage locations files have: s3://<bucket>/<path>.
Buckets == {<<"A">>, <<"B">>}
Paths == {<<"x">>, <<"y">>, <<"z">>, <<"x", "/", "y">>, <<"x", "y">>,
          <<"x", "/", "/">>}
MakeUri(bucket, path) == <<"s3://">> \o bucket \o <<"/">> \o path
Uris == {MakeUri(b, q) : b \in Buckets, q \in Paths}

SeenFiles == {<<"files", i>> : i \in 1..MaxSeenFiles}

\* collect_metadata has returned: the sorted files seen, each with its
\* s3_uri in the cache.
InitManifests ==
    /\ exists = Ids
    /\ local = EmptyDict
    /\ tasks = <<>>
    /\ nCalls = 0
    /\ prevCall = NoCall
    /\ bgPc = "idle"
    /\ at_ids = <<>>
    /\ load_cache = TRUE
    /\ cached_ids = <<>>
    /\ gatherExc = "none"
    /\ results = EmptyDict
    /\ bgError = "none"
    /\ localAtCall = EmptyDict
    /\ initial = EmptyDict
    /\ refs = {}
    /\ searchable = {}
    /\ pc = "manifests"
    /\ files_seen \in SUBSET SeenFiles
    /\ samples_seen = {}
    /\ donors_seen = {}
    /\ file_sets_seen = {}
    /\ file_sets = {}
    /\ fs = <<"file_sets", 1>>
    /\ metadata = [files |-> SortIds(files_seen), file_sets |-> <<>>,
                   samples |-> <<>>, donors |-> <<>>]
    /\ failure = "none"
    /\ s3_uri \in [files_seen -> Uris]
    /\ manifests = EmptyDict
    /\ RowsIdle
    /\ UploadIdle
    /\ MainIdle
    /\ TablesIdle
    /\ WaitIdle

NextManifests == MakeManifests

SpecManifests == InitManifests /\ [][NextManifests]_vars

\* ------------------------------------------------------------------------
\* add_fields_to_row
\* ------------------------------------------------------------------------

\* metadata.py 14-24.
AT_ID_LINKS == {"seqspecs", "derived_from", "file_set", "files",
                "input_file_sets", "samples", "donors", "file_id",
                "file_set_id"}

\* metadata.py 28-52.
FILE_FIELDS ==
    <<"type", "summary", "assay_titles", "content_type", "file_name",
      "file_format", "file_format_type", "file_size", "file_md5sum",
      "file_set", "seqspecs", "workflows", "derived_from",
      "reference_assembly", "cell_type_annotation", "flowcell_id",
      "illumina_read_type", "lane", "mean_read_length", "sequencing_kit",
      "sequencing_platform", "sequencing_run", "transcriptome_annotation">>

\* metadata.py 55-83.
FILE_SET_FIELDS ==
    <<"type", "assay_term", "assay_titles", "files",
      "associated_phenotypes", "auxiliary_sets", "average_guide_coverage",
      "average_insert_size", "award", "barcode_map",
      "construct_library_sets", "control_file_sets", "exon",
      "file_set_type", "guide_type", "input_file_sets", "lab",
      "preferred_assay_titles", "sample_summary", "samples", "scope",
      "selection_criteria", "sequencing_library_types",
      "small_scale_gene_list", "small_scale_loci_list", "summary",
      "targeted_genes">>

\* metadata.py 98-116.
SAMPLE_FIELDS ==
    <<"type", "summary", "sample_terms", "modifications",
      "targeted_sample_term", "biosample_type", "multiplexed_samples",
      "pooled_from", "donors", "construct_library_sets",
      "biosample_qualifiers", "embryonic", "sorted_fractions",
      "donor_age_at_collection_unit_upper_bound",
      "donor_age_at_collection_unit_lower_bound",
      "donor_age_at_collection_unit", "moi">>

\* metadata.py 119-125.
DONOR_FIELDS ==
    <<"type", "reported_ethnicity", "phenotypic_features", "phenotypic_sex",
      "organism_type">>

TableNames == {"files", "file_sets", "samples", "donors"}

\* metadata.py 457, 472, 484, 496: the field list of each table.
FieldsOf(nm) == CASE nm = "files" -> FILE_FIELDS
                  [] nm = "file_sets" -> FILE_SET_FIELDS
                  [] nm = "samples" -> SAMPLE_FIELDS
                  [] nm = "donors" -> DONOR_FIELDS

\* The entities the rows link to and the hops fetch.
Terms == {<<"terms", 1>>}
Labs == {<<"labs", 1>>}
Features == {<<"features", 1>>}
LinkedIds == Terms \cup Labs \cup Features

\* The values of an entity: None, '', a non-empty string (or a number), a
\* non-empty list, an @id, a list of @ids.
Null == [kind |-> "null", ids |-> <<>>]
EmptyStr == [kind |-> "empty", ids |-> <<>>]
Str == [kind |-> "str", ids |-> <<>>]
List == [kind |-> "list", ids |-> <<>>]
AtId(id) == [kind |-> "at_id", ids |-> <<id>>]
AtIds(ids) == [kind |-> "at_ids", ids |-> ids]

\* bool(value).
Truthy(v) == v.kind \notin {"null", "empty"}

\* item.get(key, default).
Get(it, key, default) == IF key \in DOMAIN it THEN it[key] ELSE default

\* metadata.py 338-428: the key of item the branch of the field reads.
SourceKey(nm, f) ==
    CASE f = "type" -> "@type"
      [] f = "id" -> "@id"
      [] nm = "files" /\ f = "file_name" -> "s3_uri"
      [] nm = "files" /\ f = "file_md5sum" -> "md5sum"
      [] nm = "files" /\ f = "reference_assembly" -> "assembly"
      [] nm = "donors" /\ f = "organism_type" -> "taxa"
      [] nm = "donors" /\ f = "phenotypic_sex" -> "sex"
      [] nm = "donors" /\ f = "reported_ethnicity" -> "ethnicities"
      [] nm = "samples" /\ f = "biosample_type" -> "classifications"
      [] nm = "samples" /\ f = "donor_age_at_collection_unit_upper_bound"
           -> "upper_bound_age"
      [] nm = "samples" /\ f = "donor_age_at_collection_unit_lower_bound"
           -> "lower_bound_age"
      [] nm = "samples" /\ f = "donor_age_at_collection_unit" -> "age_units"
      [] OTHER -> f

\* metadata.py 339, 341, 343, 345, 356, 366: the branches that read the key
\* with item[key].
Subscripted(nm, f) ==
    \/ f \in {"type", "id"}
    \/ nm = "files" /\ f \in {"file_name", "file_md5sum"}
    \/ nm = "file_sets" /\ f \in {"lab", "award"}

\* metadata.py 348-355, 356-362, 377-395, 404-418, 419-428: the branches
\* that resolve the value through async_batch_get.
HopField(nm, f) ==
    \/ nm = "files" /\ f = "sequencing_platform"
    \/ nm = "file_sets" /\ f = "lab"
    \/ nm = "donors" /\ f = "phenotypic_features"
    \/ nm = "samples" /\ f \in {"sample_terms", "targeted_sample_term"}

\* metadata.py 381-388: the 'feature' of the phenotypic features fetched.
FeatureTerms(ids) == IF ids = <<>> THEN <<>> ELSE <<(<<"terms", 1>>)>>

\* The at_ids of the async_batch_get calls the field makes, in order.
Hops(nm, f, it) ==
    IF HopField(nm, f) /\ Truthy(Get(it, SourceKey(nm, f), EmptyStr))
    THEN IF nm = "donors"
         THEN <<it[SourceKey(nm, f)].ids,
                FeatureTerms(it[SourceKey(nm, f)].ids)>>
         ELSE <<it[SourceKey(nm, f)].ids>>
    ELSE <<>>

\* The exception the branch of the field raises before it has a value:
\* item[key] of a missing key, None[0], None.split, get_by_id(None).
BranchError(nm, f, it) ==
    LET key == SourceKey(nm, f)
    IN IF Subscripted(nm, f) /\ key \notin DOMAIN it THEN "KeyError"
       ELSE IF key \in DOMAIN it /\ it[key].kind = "null"
       THEN CASE f = "type" -> "TypeError"
              [] nm = "files" /\ f = "file_name" -> "AttributeError"
              [] nm = "file_sets" /\ f = "award" -> "AttributeError"
              [] nm = "file_sets" /\ f = "lab" -> "fetch"
              [] OTHER -> "none"
       ELSE "none"

\* metadata.py 338-428: the value the branch of the field assigns.
BranchValue(nm, f, it) ==
    LET v == Get(it, SourceKey(nm, f), EmptyStr)
    IN CASE f = "type" -> Str
         [] nm = "files" /\ f = "file_name" -> Str
         [] nm = "file_sets" /\ f \in {"lab", "award"} -> Str
         [] HopField(nm, f) /\ Truthy(v) ->
              IF v.kind = "at_id" THEN Str ELSE List
         [] OTHER -> v

\* metadata.py 429-442: the @id links are turned into accessions.
LinkValue(f, v, it) ==
    IF f \in AT_ID_LINKS
    THEN LET v2 == IF Truthy(v) THEN v ELSE Get(it, f, EmptyStr)
         IN IF ~Truthy(v2) THEN v2
            ELSE IF v2.kind \in {"str", "at_id"} THEN Str
            ELSE List
    ELSE v

\* The value that reaches the assert of metadata.py 443.
FieldValue(nm, f, it) == LinkValue(f, BranchValue(nm, f, it), it)

\* metadata.py 319-324: lists and dicts as JSON, numbers as text, anything
\* else as it is. A cell is "" or "text"; None stays None.
serialize_cell(v) ==
    CASE v.kind = "null" -> "None"
      [] v.kind = "empty" -> ""
      [] OTHER -> "text"

\* local after the async_batch_get calls of a field, in order.
RECURSIVE AfterHops(_, _)
AfterHops(loc, hops) ==
    IF hops = <<>> THEN loc
    ELSE AfterHops(BatchLocal(loc, hops[1], TRUE), Tail(hops))

\* Every async_batch_get call of the field returns.
RECURSIVE HopsReturn(_, _)
HopsReturn(loc, hops) ==
    IF hops = <<>> THEN TRUE
    ELSE /\ BatchReturns(loc, hops[1], TRUE)
         /\ HopsReturn(BatchLocal(loc, hops[1], TRUE), Tail(hops))

\* Some async_batch_get call of the field fetches remotely.
RECURSIVE HopsFetch(_, _)
HopsFetch(loc, hops) ==
    /\ hops # <<>>
    /\ \/ ToFetch(hops[1], CachedIds(loc, hops[1])) # <<>>
       \/ HopsFetch(BatchLocal(loc, hops[1], TRUE), Tail(hops))

\* metadata.py 336-450: one pass of the loop body, for fields[fieldIdx].
AddField ==
    /\ rowPc = "running"
    /\ fieldIdx <= Len(fields)
    /\ LET f == fields[fieldIdx]
       IN IF BranchError(name, f, item) # "none"
          THEN /\ rowPc' = "raised"
               /\ rowError' = BranchError(name, f, item)
               /\ UNCHANGED <<local, row, fieldIdx>>
          ELSE /\ HopsReturn(local, Hops(name, f, item))
               /\ local' = AfterHops(local, Hops(name, f, item))
               /\ IF FieldValue(name, f, item).kind = "null"
                  THEN /\ rowPc' = "raised"
                       /\ rowError' = "AssertionError"
                       /\ UNCHANGED <<row, fieldIdx>>
                  ELSE /\ row' = Append(row, serialize_cell(
                                             FieldValue(name, f, item)))
                       /\ fieldIdx' = fieldIdx + 1
                       /\ UNCHANGED <<rowPc, rowError>>
    /\ UNCHANGED <<callVars, portalVars, collectVars, manifestVars, waitVars,
                   laterVars,
                   name, item, fields, rowsDone>>

\* metadata.py 352, 360, 380, 389, 410, 424: a fetch of an async_batch_get
\* of the field raises.
HopFails ==
    /\ rowPc = "running"
    /\ fieldIdx <= Len(fields)
    /\ BranchError(name, fields[fieldIdx], item) = "none"
    /\ HopsFetch(local, Hops(name, fields[fieldIdx], item))
    /\ rowPc' = "raised"
    /\ rowError' = "fetch"
    /\ UNCHANGED <<cacheVars, portalVars, collectVars, manifestVars, waitVars,
                   laterVars,
                   name, item, fields, row, fieldIdx, rowsDone>>

\* metadata.py 336: the loop over fields is over.
RowReturn ==
    /\ rowPc = "running"
    /\ fieldIdx > Len(fields)
    /\ rowPc' = "returned"
    /\ UNCHANGED <<cacheVars, portalVars, collectVars, manifestVars, waitVars,
                   laterVars,
                   name, item, fields, row, fieldIdx, rowError, rowsDone>>

\* The keys an entity of the table has when the portal gives every one.
KeysOf(nm) == {SourceKey(nm, FieldsOf(nm)[i]) : i \in DOMAIN FieldsOf(nm)}

\* The entity with every key, each with a value of its kind.
CompleteItem(nm) ==
    [k \in KeysOf(nm) |->
        CASE k \in {"sequencing_platform", "targeted_sample_term"}
               -> AtId(<<"terms", 1>>)
          [] k = "sample_terms" -> AtIds(<<(<<"terms", 1>>)>>)
          [] k = "phenotypic_features" -> AtIds(<<(<<"features", 1>>)>>)
          [] k = "lab" -> AtId(<<"labs", 1>>)
          [] k \in {"award", "file_set"} -> AtId(<<"labs", 1>>)
          [] k \in AT_ID_LINKS -> AtIds(<<>>)
          [] k \in {"@type", "assay_titles", "ethnicities"} -> List
          [] OTHER -> Str]

\* The entities of the table with up to MaxHoles keys absent or null.
Items(nm) ==
    UNION {{[k \in KeysOf(nm) \ A |->
                IF k \in H THEN Null ELSE CompleteItem(nm)[k]] :
              A \in SUBSET H} :
           H \in SubsetsUpTo(KeysOf(nm), MaxHoles)}

\* metadata.py 460-467, 475-479, 487-491, 499-503: the cells the row has
\* when add_fields_to_row is called.
RowPrefix(nm) ==
    IF nm = "files" THEN <<"text", "text", "text">> ELSE <<"text", "text">>

InitRows ==
    /\ exists = Ids \cup LinkedIds
    /\ local \in {EmptyDict, [x \in Terms |-> "fetched"]}
    /\ tasks = <<>>
    /\ nCalls = 0
    /\ prevCall = NoCall
    /\ bgPc = "idle"
    /\ at_ids = <<>>
    /\ load_cache = TRUE
    /\ cached_ids = <<>>
    /\ gatherExc = "none"
    /\ results = EmptyDict
    /\ bgError = "none"
    /\ localAtCall = EmptyDict
    /\ initial = EmptyDict
    /\ refs = {}
    /\ searchable = {}
    /\ pc = "tables"
    /\ files_seen = {}
    /\ samples_seen = {}
    /\ donors_seen = {}
    /\ file_sets_seen = {}
    /\ file_sets = {}
    /\ fs = <<"file_sets", 1>>
    /\ metadata = NoMetadata
    /\ failure = "none"
    /\ s3_uri = EmptyDict
    /\ manifests = EmptyDict
    /\ name \in TableNames
    /\ item \in Items(name)
    /\ fields = FieldsOf(name)
    /\ row = RowPrefix(name)
    /\ fieldIdx = 1
    /\ rowPc = "running"
    /\ rowError = "none"
    /\ rowsDone = 0
    /\ WaitIdle
    /\ UploadIdle
    /\ MainIdle
    /\ TablesIdle

NextRows ==
    \/ AddField
    \/ HopFails
    \/ RowReturn

SpecRows == InitRows /\ [][NextRows]_vars

\* ------------------------------------------------------------------------
\* The users of the cache in a run, in the order main calls them:
\* preload, collect_metadata, make_data_tables
\* ------------------------------------------------------------------------

\* The ids the preload searches may return.
PreloadIds == {<<"file_sets", 1>>, <<"donors", 1>>}

\* cache.py 32-39 (sts.py 488): the results of the searches are put in the
\* cache.
Preload ==
    /\ pc = "preload"
    /\ \E S \in SUBSET PreloadIds :
          local' = DictUpdate(local, [x \in S |-> "searched"])
    /\ pc' = "start"
    /\ UNCHANGED <<callVars, portalVars, downstreamVars, files_seen,
                   samples_seen, donors_seen, file_sets_seen, file_sets, fs,
                   metadata, failure>>

\* sts.py 491-530: collect_metadata returned; what main does next up to
\* make_data_tables only reads the cache.
StartTables ==
    /\ pc = "done"
    /\ pc' = "tables"
    /\ UNCHANGED <<cacheVars, portalVars, downstreamVars, files_seen,
                   samples_seen, donors_seen, file_sets_seen, file_sets, fs,
                   metadata, failure>>

\* metadata.py 459, 474, 486, 498: the entities of the four tables, in the
\* order make_data_tables makes their rows.
AllSeen ==
    metadata.files \o metadata.file_sets \o metadata.samples
        \o metadata.donors

\* metadata.py 457, 472, 484, 496: the header row of each table.
IdColumns(nm) ==
    CASE nm = "files" -> <<"file_id", "file_path", "igvf_portal_url">>
      [] nm = "file_sets" -> <<"file_set_id", "igvf_portal_url">>
      [] nm = "samples" -> <<"sample_id", "igvf_portal_url">>
      [] nm = "donors" -> <<"donor_id", "igvf_portal_url">>

Headers(nm) == IdColumns(nm) \o FieldsOf(nm)

\* The order make_data_tables makes the tables in.
TableOrder == <<"files", "file_sets", "samples", "donors">>

TableIdx(nm) == CHOOSE i \in DOMAIN TableOrder : TableOrder[i] = nm

\* metadata.py 458, 473, 485, 497: the tables up to that of nm are started,
\* each with its header row.
HeadersUpTo(t, nm) ==
    [k \in DOMAIN t \cup {TableOrder[i] : i \in 1..TableIdx(nm)} |->
        IF k \in DOMAIN t THEN t[k] ELSE <<Headers(k)>>]

\* metadata.py 469, 481, 493, 505: the row add_fields_to_row has filled is
\* added to its table.
WithRow(t) ==
    IF rowPc = "returned" THEN [t EXCEPT ![name] = Append(@, row)] ELSE t

\* metadata.py 459-468 (and 474-480, 486-492, 498-504): the next entity is
\* read from the cache, its row is started and add_fields_to_row called.
StartRow ==
    /\ pc = "tables"
    /\ rowPc \in {"idle", "returned"}
    /\ rowsDone < Len(AllSeen)
    /\ rowsDone' = rowsDone + 1
    /\ LET x == AllSeen[rowsDone + 1]
       IN /\ IF x \in DOMAIN local
             THEN /\ name' = x[1]
                  /\ item' = CompleteItem(x[1])
                  /\ fields' = FieldsOf(x[1])
                  /\ row' = RowPrefix(x[1])
                  /\ fieldIdx' = 1
                  /\ rowPc' = "running"
                  /\ UNCHANGED rowError
             ELSE /\ rowPc' = "raised"
                  /\ rowError' = "KeyError"
                  /\ UNCHANGED <<name, item, fields, row, fieldIdx>>
          /\ tsvs' = HeadersUpTo(WithRow(tsvs), x[1])
    /\ UNCHANGED <<cacheVars, portalVars, collectVars, manifestVars,
                   waitVars, uploadVars, mainVars>>

\* metadata.py 505-511: every row is made; the tables are returned.
EndTables ==
    /\ pc = "tables"
    /\ rowPc \in {"idle", "returned"}
    /\ rowsDone = Len(AllSeen)
    /\ tsvs' = HeadersUpTo(WithRow(tsvs), "donors")
    /\ pc' = "tables_made"
    /\ UNCHANGED <<cacheVars, portalVars, manifestVars, rowVars, waitVars,
                   uploadVars, mainVars, files_seen, samples_seen,
                   donors_seen, file_sets_seen, file_sets, fs, metadata,
                   failure>>

\* The references the file sets of the portals of the runs may declare.
PipelineRefs ==
    {<<(<<"file_sets", 2>>), (<<"file_sets", 1>>)>>,
     <<(<<"file_sets", 2>>), (<<"samples", 1>>)>>,
     <<(<<"file_sets", 1>>), (<<"donors", 1>>)>>,
     <<(<<"file_sets", 1>>), (<<"files", 2>>)>>}

InitPipeline ==
    /\ exists = Ids \cup LinkedIds
    /\ local = EmptyDict
    /\ tasks = <<>>
    /\ nCalls = 0
    /\ prevCall = NoCall
    /\ bgPc = "idle"
    /\ at_ids = <<>>
    /\ load_cache = TRUE
    /\ cached_ids = <<>>
    /\ gatherExc = "none"
    /\ results = EmptyDict
    /\ bgError = "none"
    /\ localAtCall = EmptyDict
    /\ initial \in {[f \in {<<"files", 1>>} |-> <<"file_sets", 1>>],
                    [f \in Files |-> <<"file_sets", f[2]>>]}
    /\ refs \in SUBSET PipelineRefs
    /\ searchable = Samples
    /\ pc = "preload"
    /\ files_seen = {}
    /\ samples_seen = {}
    /\ donors_seen = {}
    /\ file_sets_seen = {}
    /\ file_sets = {}
    /\ fs = <<"file_sets", 1>>
    /\ metadata = NoMetadata
    /\ failure = "none"
    /\ s3_uri = EmptyDict
    /\ manifests = EmptyDict
    /\ RowsIdle
    /\ UploadIdle
    /\ MainIdle
    /\ TablesIdle
    /\ WaitIdle

NextPipeline ==
    \/ Preload
    \/ NextCollect
    \/ StartTables
    \/ StartRow
    \/ NextRows
    \/ EndTables

SpecPipeline == InitPipeline /\ [][NextPipeline]_vars

\* ------------------------------------------------------------------------
\* wait_for_transfer_job
\* ------------------------------------------------------------------------

\* The statuses of a transfer operation that are final (the operation is
\* done) and those that are not.
DoneStatuses == {"SUCCESS", "FAILED", "ABORTED"}
RunningStatuses == {"QUEUED", "IN_PROGRESS", "PAUSED"}

\* sts.py 194: the done operation did not succeed.
MutOperationFailedOnlyFailed(status) == status = "FAILED"
OperationFailed(status) == status # "SUCCESS"

\* sts.py 193: operation.done is True.
MutOperationDoneNever(op) == FALSE
OperationDone(op) == op.done

\* sts.py 200: the sleep between two polls of the operation.
MutPollSleepNone(seconds) == <<>>
PollSleep(seconds) == <<seconds>>

\* sts.py 167-178: get_transfer_job; without a latest operation the job is
\* asked again after a sleep of 5 seconds.
GetJob ==
    /\ waitPc = "get_job"
    /\ jobPolls < MaxPolls
    /\ jobPolls' = jobPolls + 1
    /\ IF jobHasOperation
       THEN /\ waitPc' = "get_operation"
            /\ UNCHANGED sleeps
       ELSE /\ waitPc' = "get_job"
            /\ sleeps' = Append(sleeps, JobPollSeconds)
    /\ UNCHANGED <<cacheVars, portalVars, collectVars, manifestVars, rowVars,
                   laterVars,
                   jobHasOperation, opDone, opStatus, operation, polls,
                   waitError>>

\* sts.py 180-200: get_operation, then the rest of the loop body: a done
\* operation ends the call, an operation not done makes it sleep.
GetOperation ==
    /\ waitPc = "get_operation"
    /\ polls < MaxPolls
    /\ polls' = polls + 1
    /\ jobPolls' = 0
    /\ operation' = [done |-> opDone, status |-> opStatus]
    /\ IF OperationDone([done |-> opDone, status |-> opStatus])
       THEN /\ sleeps' = <<>>
            /\ IF OperationFailed(opStatus)
               THEN waitPc' = "raised" /\ waitError' = "ValueError"
               ELSE waitPc' = "returned" /\ UNCHANGED waitError
       ELSE /\ sleeps' = PollSleep(SleepTimeSeconds)
            /\ waitPc' = "get_job"
            /\ UNCHANGED waitError
    /\ UNCHANGED <<cacheVars, portalVars, collectVars, manifestVars, rowVars,
                   laterVars,
                   jobHasOperation, opDone, opStatus>>

\* sts.py 168, 180: a call of the service client raises.
ClientFails ==
    /\ waitPc \in {"get_job", "get_operation"}
    /\ waitPc' = "raised"
    /\ waitError' = "client"
    /\ UNCHANGED <<cacheVars, portalVars, collectVars, manifestVars, rowVars,
                   laterVars,
                   jobHasOperation, opDone, opStatus, operation, polls,
                   jobPolls, sleeps>>

\* The transfer service starts the operation of the job.
OperationStarts ==
    /\ waitPc \in {"get_job", "get_operation"}
    /\ ~jobHasOperation
    /\ jobHasOperation' = TRUE
    /\ UNCHANGED <<cacheVars, portalVars, collectVars, manifestVars, rowVars,
                   laterVars,
                   waitPc, opDone, opStatus, operation, polls, jobPolls,
                   sleeps, waitError>>

\* The operation changes status; a done operation stays as it is.
OperationMoves(st) ==
    /\ waitPc \in {"get_job", "get_operation"}
    /\ jobHasOperation
    /\ ~opDone
    /\ st # opStatus
    /\ opStatus' = st
    /\ opDone' = (st \in DoneStatuses)
    /\ UNCHANGED <<cacheVars, portalVars, collectVars, manifestVars, rowVars,
                   laterVars,
                   waitPc, jobHasOperation, operation, polls, jobPolls,
                   sleeps, waitError>>

InitWait ==
    /\ exists = Ids
    /\ local = EmptyDict
    /\ tasks = <<>>
    /\ nCalls = 0
    /\ prevCall = NoCall
    /\ bgPc = "idle"
    /\ at_ids = <<>>
    /\ load_cache = TRUE
    /\ cached_ids = <<>>
    /\ gatherExc = "none"
    /\ results = EmptyDict
    /\ bgError = "none"
    /\ localAtCall = EmptyDict
    /\ initial = EmptyDict
    /\ refs = {}
    /\ searchable = {}
    /\ pc = "transfer"
    /\ files_seen = {}
    /\ samples_seen = {}
    /\ donors_seen = {}
    /\ file_sets_seen = {}
    /\ file_sets = {}
    /\ fs = <<"file_sets", 1>>
    /\ metadata = NoMetadata
    /\ failure = "none"
    /\ s3_uri = EmptyDict
    /\ manifests = EmptyDict
    /\ RowsIdle
    /\ UploadIdle
    /\ MainIdle
    /\ TablesIdle
    /\ waitPc = "get_job"
    /\ jobHasOperation \in BOOLEAN
    /\ opDone = FALSE
    /\ opStatus = "QUEUED"
    /\ operation = [done |-> FALSE, status |-> "QUEUED"]
    /\ polls = 0
    /\ jobPolls = 0
    /\ sleeps = <<>>
    /\ waitError = "none"

NextWait ==
    \/ GetJob
    \/ GetOperation
    \/ ClientFails
    \/ OperationStarts
    \/ \E st \in DoneStatuses \cup RunningStatuses : OperationMoves(st)

SpecWait == InitWait /\ [][NextWait]_vars

\* The process keeps running: a sleep ends and a call of the service client
\* returns (or raises), so the next call of the loop is made.
SpecWaitFair ==
    /\ InitWait
    /\ [][NextWait]_vars
    /\ WF_vars(GetJob)
    /\ WF_vars(GetOperation)

\* ------------------------------------------------------------------------
\* upload_data_tables and the requests it sends to the workspace
\* ------------------------------------------------------------------------
\* A tsv is the sequence of its characters; "..." stands for what follows
\* the first header.

\* s has old at index i.
HasAt(s, old, i) ==
    /\ i + Len(old) - 1 <= Len(s)
    /\ SubSeq(s, i, i + Len(old) - 1) = old

\* old in s.
Contains(s, old) == \E i \in 1..Len(s) : HasAt(s, old, i)

\* s.replace(old, ''): the occurrences of old are removed, left to right.
RECURSIVE RemoveAll(_, _)
RemoveAll(s, old) ==
    IF s = <<>> THEN <<>>
    ELSE IF HasAt(s, old, 1)
         THEN RemoveAll(SubSeq(s, Len(old) + 1, Len(s)), old)
         ELSE <<s[1]>> \o RemoveAll(Tail(s), old)

IdSuffix == <<"_", "i", "d">>

\* metadata.py 141-145.
get_name_from_tsv(tsv) ==
    LET first_header == SplitAll(tsv, "\t")[1]
    IN IF Contains(first_header, IdSuffix)
       THEN RemoveAll(first_header, IdSuffix)
       ELSE first_header

\* metadata.py 457-458, 472-473, 484-485, 496-497: the tsvs start with the
\* header of the kind's id column.
FilesTsv == <<"f", "i", "l", "e", "_", "i", "d", "\t", "...">>
FileSetsTsv ==
    <<"f", "i", "l", "e", "_", "s", "e", "t", "_", "i", "d", "\t", "...">>
SamplesTsv == <<"s", "a", "m", "p", "l", "e", "_", "i", "d", "\t", "...">>
DonorsTsv == <<"d", "o", "n", "o", "r", "_", "i", "d", "\t", "...">>

\* metadata.py 506-511: the dict make_data_tables returns, as its items.
DataTables == <<(<<"files", FilesTsv>>), (<<"file_sets", FileSetsTsv>>),
                (<<"samples", SamplesTsv>>), (<<"donors", DonorsTsv>>)>>

\* The status codes the workspace answers with.
DeleteStatuses == {204, 404, 500}
PostStatuses == {OkStatus, 400, 500}

\* sts.py 214: the tables are deleted first when overwrite_tsvs is set.
MutShouldDeleteAlways(overwrite) == TRUE
ShouldDelete(overwrite) == overwrite

\* metadata.py 169: the post failed.
MutPostFailedServerError(status) == status >= 500
PostFailed(status) == status # OkStatus

\* sts.py 213-214: upload_data_tables is called.
UploadDataTables ==
    /\ pc = "upload"
    /\ upPc = "start"
    /\ upPc' = IF ShouldDelete(overwrite_tsvs) THEN "delete" ELSE "post"
    /\ upIdx' = 1
    /\ UNCHANGED <<cacheVars, portalVars, collectVars, manifestVars, rowVars,
                   waitVars, mainVars, tsvs, data_tables, overwrite_tsvs, requests,
                   upSleeps, upError>>

\* sts.py 215-222, metadata.py 148-151: the next table is deleted; the
\* status of the response is logged only.
DeleteTable ==
    /\ upPc = "delete"
    /\ upIdx <= Len(data_tables)
    /\ \E status \in DeleteStatuses :
          requests' = Append(requests,
                             [method |-> "DELETE",
                              table |-> data_tables[upIdx][1],
                              target |-> get_name_from_tsv(
                                             data_tables[upIdx][2]),
                              status |-> status])
    /\ upIdx' = upIdx + 1
    /\ UNCHANGED <<cacheVars, portalVars, collectVars, manifestVars, rowVars,
                   waitVars, mainVars, tsvs, data_tables, overwrite_tsvs, upPc,
                   upSleeps, upError>>

\* sts.py 223: the deletes are over.
DeleteSleep ==
    /\ upPc = "delete"
    /\ upIdx > Len(data_tables)
    /\ upSleeps' = Append(upSleeps, DeleteSleepSeconds)
    /\ upPc' = "post"
    /\ upIdx' = 1
    /\ UNCHANGED <<cacheVars, portalVars, collectVars, manifestVars, rowVars,
                   waitVars, mainVars, tsvs, data_tables, overwrite_tsvs, requests,
                   upError>>

\* sts.py 224-232, metadata.py 155-170: the next table is posted.
PostTable ==
    /\ upPc = "post"
    /\ upIdx <= Len(data_tables)
    /\ \E status \in PostStatuses :
          /\ requests' = Append(requests,
                                [method |-> "POST",
                                 table |-> data_tables[upIdx][1],
                                 target |-> data_tables[upIdx][2],
                                 status |-> status])
          /\ IF PostFailed(status)
             THEN /\ upPc' = "raised"
                  /\ upError' = "ValueError"
                  /\ UNCHANGED <<upIdx, upSleeps>>
             ELSE /\ upSleeps' = Append(upSleeps, PostSleepSeconds)
                  /\ upIdx' = upIdx + 1
                  /\ UNCHANGED <<upPc, upError>>
    /\ UNCHANGED <<cacheVars, portalVars, collectVars, manifestVars, rowVars,
                   waitVars, mainVars, tsvs, data_tables, overwrite_tsvs>>

\* metadata.py 150, 157: the session raises instead of answering.
SessionFails ==
    /\ upPc \in {"delete", "post"}
    /\ upIdx <= Len(data_tables)
    /\ upPc' = "raised"
    /\ upError' = "ConnectionError"
    /\ UNCHANGED <<cacheVars, portalVars, collectVars, manifestVars, rowVars,
                   waitVars, mainVars, tsvs, data_tables, overwrite_tsvs, upIdx,
                   requests, upSleeps>>

\* sts.py 224: the loop over the tables is over.
UploadReturn ==
    /\ upPc = "post"
    /\ upIdx > Len(data_tables)
    /\ upPc' = "returned"
    /\ UNCHANGED <<cacheVars, portalVars, collectVars, manifestVars, rowVars,
                   waitVars, mainVars, tsvs, data_tables, overwrite_tsvs, upIdx,
                   requests, upSleeps, upError>>

\* main is about to call upload_data_tables (sts.py 545) with the tables
\* make_data_tables returned.
InitUpload ==
    /\ exists = Ids
    /\ local = EmptyDict
    /\ tasks = <<>>
    /\ nCalls = 0
    /\ prevCall = NoCall
    /\ bgPc = "idle"
    /\ at_ids = <<>>
    /\ load_cache = TRUE
    /\ cached_ids = <<>>
    /\ gatherExc = "none"
    /\ results = EmptyDict
    /\ bgError = "none"
    /\ localAtCall = EmptyDict
    /\ initial = EmptyDict
    /\ refs = {}
    /\ searchable = {}
    /\ pc = "upload"
    /\ files_seen = {}
    /\ samples_seen = {}
    /\ donors_seen = {}
    /\ file_sets_seen = {}
    /\ file_sets = {}
    /\ fs = <<"file_sets", 1>>
    /\ metadata = NoMetadata
    /\ failure = "none"
    /\ s3_uri = EmptyDict
    /\ manifests = EmptyDict
    /\ RowsIdle
    /\ WaitIdle
    /\ MainIdle
    /\ TablesIdle
    /\ data_tables = DataTables
    /\ overwrite_tsvs \in BOOLEAN
    /\ upPc = "start"
    /\ upIdx = 0
    /\ requests = <<>>
    /\ upSleeps = <<>>
    /\ upError = "none"

NextUpload ==
    \/ UploadDataTables
    \/ DeleteTable
    \/ DeleteSleep
    \/ PostTable
    \/ SessionFails
    \/ UploadReturn

SpecUpload == InitUpload /\ [][NextUpload]_vars

\* ------------------------------------------------------------------------
\* main from the manifests to the upload of the data tables (sts.py 496-551)
\* ------------------------------------------------------------------------
\* metadata.py 299-312, sts.py 503, 525: manifests.items() goes through the
\* buckets in the order they were inserted, that of the sorted tuples.
RECURSIVE SortStrs(_)
SortStrs(S) ==
    IF S = {} THEN <<>>
    ELSE LET m == CHOOSE t \in S : \A u \in S : t = u \/ StrLess(t, u)
         IN <<m>> \o SortStrs(S \ {m})

ManifestItems == SortStrs(DOMAIN manifests)

\* The latest operation of a transfer job just created: none yet.
NewJob == [has |-> FALSE, done |-> FALSE, status |-> "QUEUED"]

\* sts.py 526: the props wait_for_transfer_job is called with in the pass
\* i of the second loop.
WaitProps(i) == props

\* sts.py 116-118: the name of the job of a source bucket; the name of the
\* config and the time are those of the run.
generate_name(source_bucket) == <<"name-">> \o source_bucket \o <<"-dt">>

\* sts.py 206: the blob the manifest is written to, props.name + '.tsv'.
MutBlobNameIsJobName(nm) == nm
BlobName(nm) == nm \o <<".tsv">>

\* sts.py 205-207: the place of that blob in the manifest bucket.
BlobLocation(nm) == <<"gs://manifest_bucket/">> \o BlobName(nm)

\* sts.py 149-151: the transfer_manifest location of the job,
\* gs://{props.manifest_bucket}/{props.name}.tsv.
TransferManifestLocation(nm) ==
    <<"gs://manifest_bucket/">> \o nm \o <<".tsv">>

\* sts.py 503-524, 203-210: the next pass of the first loop starts: the
\* props of the bucket are made and its manifest is uploaded.
UploadTsvToBucket ==
    /\ pc = "manifests_made"
    /\ loopIdx < Len(ManifestItems)
    /\ LET source_bucket == ManifestItems[loopIdx + 1]
       IN /\ props' = source_bucket
          /\ transfer_job_props' = Append(transfer_job_props, source_bucket)
          /\ bucketTsvs' =
                 DictUpdate(bucketTsvs,
                            [l \in {BlobLocation(
                                        generate_name(source_bucket))} |->
                                manifests[source_bucket]])
    /\ pc' = "create_job"
    /\ UNCHANGED <<cacheVars, portalVars, manifestVars, rowVars, waitVars,
                   uploadVars, tsvs, files_seen, samples_seen, donors_seen,
                   file_sets_seen, file_sets, fs, metadata, failure, jobs,
                   loopIdx, waited, mainError>>

\* sts.py 524, 155-163, 121-153: the pass ends: the transfer job of props is
\* created, with the location of its manifest.
CreateTransferJob ==
    /\ pc = "create_job"
    /\ jobs' = DictUpdate(jobs,
                          [b \in {props} |->
                              [has |-> NewJob.has, done |-> NewJob.done,
                               status |-> NewJob.status,
                               manifest |-> TransferManifestLocation(
                                                generate_name(props))]])
    /\ loopIdx' = loopIdx + 1
    /\ pc' = "manifests_made"
    /\ UNCHANGED <<cacheVars, portalVars, manifestVars, rowVars, waitVars,
                   uploadVars, tsvs, files_seen, samples_seen, donors_seen,
                   file_sets_seen, file_sets, fs, metadata, failure,
                   transfer_job_props, props, bucketTsvs, waited, mainError>>

\* sts.py 503, 525: the first loop is over; the second starts.
StartWaits ==
    /\ pc = "manifests_made"
    /\ loopIdx = Len(ManifestItems)
    /\ pc' = "wait_jobs"
    /\ loopIdx' = 0
    /\ UNCHANGED <<cacheVars, portalVars, manifestVars, rowVars, waitVars,
                   uploadVars, tsvs, files_seen, samples_seen, donors_seen,
                   file_sets_seen, file_sets, fs, metadata, failure,
                   transfer_job_props, props, bucketTsvs, jobs, waited,
                   mainError>>

\* sts.py 525-526, 187-200: the next pass of the second loop: the wait for
\* the job of WaitProps ends once the latest operation of that job is done,
\* by returning on SUCCESS and by raising ValueError otherwise.
WaitForTransferJob ==
    /\ pc = "wait_jobs"
    /\ loopIdx < Len(ManifestItems)
    /\ LET waited_for == WaitProps(loopIdx + 1)
       IN /\ jobs[waited_for].has
          /\ OperationDone(jobs[waited_for])
          /\ IF OperationFailed(jobs[waited_for].status)
             THEN /\ pc' = "failed"
                  /\ mainError' = "ValueError"
                  /\ UNCHANGED <<waited, loopIdx>>
             ELSE /\ waited' = Append(waited, waited_for)
                  /\ loopIdx' = loopIdx + 1
                  /\ UNCHANGED <<pc, mainError>>
    /\ UNCHANGED <<cacheVars, portalVars, manifestVars, rowVars, waitVars,
                   uploadVars, tsvs, files_seen, samples_seen, donors_seen,
                   file_sets_seen, file_sets, fs, metadata, failure,
                   transfer_job_props, props, bucketTsvs, jobs>>

\* The transfer service moves the latest operation of a job; a done
\* operation stays as it is.
JobMoves(b, st) ==
    /\ pc \in {"manifests_made", "create_job", "wait_jobs"}
    /\ b \in DOMAIN jobs
    /\ ~jobs[b].done
    /\ ~(jobs[b].has /\ jobs[b].status = st)
    /\ jobs' = [jobs EXCEPT ![b].has = TRUE,
                            ![b].done = st \in DoneStatuses,
                            ![b].status = st]
    /\ UNCHANGED <<cacheVars, portalVars, collectVars, manifestVars, rowVars,
                   waitVars, uploadVars, tsvs, transfer_job_props, props,
                   bucketTsvs, loopIdx, waited, mainError>>

\* sts.py 504-526: a call of the storage or of the transfer client raises;
\* main does not catch it.
MainClientFails ==
    /\ pc \in {"manifests_made", "create_job", "wait_jobs"}
    /\ loopIdx < Len(ManifestItems)
    /\ pc' = "failed"
    /\ mainError' = "client"
    /\ UNCHANGED <<cacheVars, portalVars, manifestVars, rowVars, waitVars,
                   uploadVars, tsvs, files_seen, samples_seen, donors_seen,
                   file_sets_seen, file_sets, fs, metadata, failure,
                   transfer_job_props, props, bucketTsvs, jobs, loopIdx,
                   waited>>

\* sts.py 525, 527-535: the second loop is over; make_data_tables is run.
MakeDataTables ==
    /\ pc = "wait_jobs"
    /\ loopIdx = Len(ManifestItems)
    /\ pc' = "tables"
    /\ UNCHANGED <<cacheVars, portalVars, downstreamVars, files_seen,
                   samples_seen, donors_seen, file_sets_seen, file_sets, fs,
                   metadata, failure>>

\* sts.py 527-551: make_data_tables has returned the four tables (written
\* to files too); upload_data_tables is about to be called with them and
\* with the overwrite_tsvs of the config.
DataTablesMade ==
    /\ pc = "tables"
    /\ upPc = "idle"
    /\ pc' = "upload"
    /\ data_tables' = DataTables
    /\ overwrite_tsvs' \in BOOLEAN
    /\ upPc' = "start"
    /\ UNCHANGED <<cacheVars, portalVars, manifestVars, rowVars, waitVars,
                   mainVars, tsvs, files_seen, samples_seen, donors_seen,
                   file_sets_seen, file_sets, fs, metadata, failure, upIdx,
                   requests, upSleeps, upError>>

\* The files and the storage locations of the runs of main followed.
MainFiles == {<<"files", 1>>, <<"files", 2>>}
MainUris == {MakeUri(<<"A">>, <<"x">>), MakeUri(<<"B">>, <<"x">>),
             MakeUri(<<"A">>, <<"y">>)}

\* sts.py 491-496: collect_metadata has returned.
InitMain ==
    /\ exists = Ids
    /\ local = EmptyDict
    /\ tasks = <<>>
    /\ nCalls = 0
    /\ prevCall = NoCall
    /\ bgPc = "idle"
    /\ at_ids = <<>>
    /\ load_cache = TRUE
    /\ cached_ids = <<>>
    /\ gatherExc = "none"
    /\ results = EmptyDict
    /\ bgError = "none"
    /\ localAtCall = EmptyDict
    /\ initial = EmptyDict
    /\ refs = {}
    /\ searchable = {}
    /\ pc = "manifests"
    /\ files_seen \in SUBSET MainFiles
    /\ samples_seen = {}
    /\ donors_seen = {}
    /\ file_sets_seen = {}
    /\ file_sets = {}
    /\ fs = <<"file_sets", 1>>
    /\ metadata = [files |-> SortIds(files_seen), file_sets |-> <<>>,
                   samples |-> <<>>, donors |-> <<>>]
    /\ failure = "none"
    /\ s3_uri \in [files_seen -> MainUris]
    /\ manifests = EmptyDict
    /\ RowsIdle
    /\ UploadIdle
    /\ MainIdle
    /\ TablesIdle
    /\ WaitIdle

NextMain ==
    \/ MakeManifests
    \/ UploadTsvToBucket
    \/ CreateTransferJob
    \/ StartWaits
    \/ WaitForTransferJob
    \/ \E b \in Buckets, st \in DoneStatuses \cup RunningStatuses :
          JobMoves(b, st)
    \/ MainClientFails
    \/ MakeDataTables
    \/ DataTablesMade
    \/ NextUpload

SpecMain == InitMain /\ [][NextMain]_vars

\* ------------------------------------------------------------------------
\* Properties of make_sts_manifests_from_metadata
\* ------------------------------------------------------------------------

\* The bucket and the path a storage location was made of.
BucketOf(uri) == CHOOSE b \in Buckets : \E q \in Paths : MakeUri(b, q) = uri
PathOf(uri) == CHOOSE q \in Paths : \E b \in Buckets : MakeUri(b, q) = uri

\* The lines of a text.
Lines(text) == IF text = <<>> THEN <<>> ELSE SplitAll(text, "\n")

\* C7: the manifests have one entry per bucket of a seen file, whose lines
\* are exactly the paths of the seen files of that bucket, each once, in
\* ascending order.
C7_ManifestGrouping ==
    pc = "manifests_made" =>
        /\ DOMAIN manifests = {BucketOf(s3_uri[f]) : f \in files_seen}
        /\ \A b \in DOMAIN manifests :
              /\ Range(Lines(manifests[b]))
                    = {PathOf(s3_uri[f]) :
                          f \in {g \in files_seen : BucketOf(s3_uri[g]) = b}}
              /\ \A i, j \in DOMAIN Lines(manifests[b]) :
                    i < j => StrLess(Lines(manifests[b])[i],
                                     Lines(manifests[b])[j])

\* s3://A/x, s3://A/y, s3://B/z give {A: [x, y], B: [z]}.
C7_Witness ==
    /\ pc = "manifests_made"
    /\ s3_uri = [f \in SeenFiles |->
                    CASE f[2] = 1 -> MakeUri(<<"A">>, <<"y">>)
                      [] f[2] = 2 -> MakeUri(<<"B">>, <<"z">>)
                      [] OTHER -> MakeUri(<<"A">>, <<"x">>)]
    /\ manifests = [b \in Buckets |->
                       IF b = <<"A">> THEN <<"x", "\n", "y">> ELSE <<"z">>]

\* ------------------------------------------------------------------------
\* Properties of collect_metadata
\* ------------------------------------------------------------------------

\* The file sets reachable from S along input_file_sets.
RECURSIVE ReachableFrom(_)
ReachableFrom(S) ==
    LET next == S \cup UNION {InputFileSets(x) : x \in S}
    IN IF next = S THEN S ELSE ReachableFrom(next)

CountIn(a, s) == Cardinality({i \in DOMAIN s : s[i] = a})

\* C1: collect_metadata ends on every file-set graph, cyclic ones included,
\* and when it returns every file set reachable from the initial files
\* is in the file_sets list exactly once.
C1_TerminatesOnCycles ==
    /\ <>(pc \in {"done", "failed"})
    /\ [](pc = "done" =>
            \A x \in ReachableFrom(InitialFrontier) :
                CountIn(x, metadata.file_sets) = 1)

C1_Witness ==
    /\ pc = "done"
    /\ <<"file_sets", 1>> \in InitialFrontier
    /\ InputFileSets(<<"file_sets", 1>>) = {<<"file_sets", 2>>}
    /\ InputFileSets(<<"file_sets", 2>>) = {<<"file_sets", 1>>}
    /\ CountIn(<<"file_sets", 1>>, metadata.file_sets) = 1
    /\ CountIn(<<"file_sets", 2>>, metadata.file_sets) = 1

\* C2: whatever elements pop returned, the four lists collect_metadata
\* returns are those of the run on the same portal snapshot in which pop
\* always returns the least element: all runs on a snapshot agree.
C2_PopOrderIrrelevant ==
    pc = "done" =>
        metadata = [files |-> SortIds(DrainLeastFirst(LoopEntry).files_seen),
                    file_sets |->
                        SortIds(DrainLeastFirst(LoopEntry).file_sets_seen),
                    samples |->
                        SortIds(DrainLeastFirst(LoopEntry).samples_seen),
                    donors |->
                        SortIds(DrainLeastFirst(LoopEntry).donors_seen)]

\* A run that popped file set 2 before file set 1 while both were pending
\* and file set 2 has an input file set.
C2_Witness ==
    /\ pc = "done"
    /\ InitialFrontier = {<<"file_sets", 1>>, <<"file_sets", 2>>}
    /\ InputFileSets(<<"file_sets", 2>>) = {<<"file_sets", 3>>}
    /\ fs = <<"file_sets", 1>>
    /\ Len(metadata.file_sets) = 3

\* The portal of the end-to-end scenario: F1 in FS1, F2 in FS2, FS1 without
\* references, FS2 with input_file_sets [FS1] and samples [S1], the sample
\* search of FS2 returning S1.
Scenario ==
    /\ initial = [f \in Files |-> <<"file_sets", f[2]>>]
    /\ refs = {<<(<<"file_sets", 2>>), (<<"file_sets", 1>>)>>,
               <<(<<"file_sets", 2>>), (<<"samples", 1>>)>>}
    /\ searchable = Samples

\* C6: in the scenario collect_metadata returns files F1, F2, file sets
\* FS1, FS2 (FS1 once), sample S1 and no donor, for every pop order.
C6_EndToEnd ==
    (Scenario /\ pc = "done") =>
        /\ metadata.files = <<(<<"files", 1>>), (<<"files", 2>>)>>
        /\ metadata.file_sets = <<(<<"file_sets", 1>>), (<<"file_sets", 2>>)>>
        /\ metadata.samples = <<(<<"samples", 1>>)>>
        /\ metadata.donors = <<>>

\* The scenario run that expanded FS2 first, FS1 being found again through
\* FS2.input_file_sets while it was still pending.
C6_Witness ==
    /\ Scenario
    /\ pc = "done"
    /\ fs = <<"file_sets", 1>>
    /\ Len(metadata.file_sets) = 2

\* C13: a failure of a remote call of collect_metadata (the initial
\* search, a fetch of a batch_get, the sample search) is fatal and not
\* retried: the step in which a call fails ends collect_metadata with the
\* failure and without a result, and no step of it runs after a failure.
C13_FailureIsFatal ==
    [][/\ failure = "none"
       /\ failure' # "none" => (pc' = "failed" /\ metadata' = NoMetadata)]_vars

\* A fetch failed in the middle of the walk, files and file sets seen.
C13_Witness ==
    /\ pc = "failed"
    /\ failure = "fetch"
    /\ files_seen # {}
    /\ file_sets_seen # {}
    /\ metadata = NoMetadata

\* C14: in every state of collect_metadata the four seen-sets are pairwise
\* disjoint: no id is in two of files_seen, file_sets_seen, samples_seen
\* and donors_seen (each holds ids of its own kind only, and an id is in a
\* set once).
C14_SeenSetsDisjoint ==
    /\ files_seen \cap file_sets_seen = {}
    /\ files_seen \cap samples_seen = {}
    /\ files_seen \cap donors_seen = {}
    /\ file_sets_seen \cap samples_seen = {}
    /\ file_sets_seen \cap donors_seen = {}
    /\ samples_seen \cap donors_seen = {}
    /\ pc = "done" =>
          Len(metadata.files) + Len(metadata.file_sets)
            + Len(metadata.samples) + Len(metadata.donors)
          = Cardinality(files_seen \cup file_sets_seen \cup samples_seen
                          \cup donors_seen)

\* A walk that has put an id in each of the four sets.
C14_Witness ==
    /\ pc = "done"
    /\ files_seen # {}
    /\ file_sets_seen # {}
    /\ samples_seen # {}
    /\ donors_seen # {}

\* ------------------------------------------------------------------------
\* Properties of async_batch_get
\* ------------------------------------------------------------------------
Ended == bgPc \in {"returned", "raised"}

FetchedIds == {tasks[i].at_id : i \in TasksOf(CurCall)}

Occurrences(a, s) == Cardinality({i \in DOMAIN s : s[i] = a})

DuplicateFree(s) == \A i, j \in DOMAIN s : s[i] = s[j] => i = j

FailedFetch(i) == tasks[i].st \in {"transport", "notfound"}

\* What local is after the whole batch of the current call is merged.
FullyMerged ==
    DictUpdate(localAtCall,
               [k \in Range(ToFetch(at_ids, cached_ids)) |-> "fetched"])

\* C3: a batch_get of N distinct ids of which the remote resolves all but
\* one (and no transport error occurs) ends with the length-mismatch error.
C3_BatchIntegrityError ==
    ( /\ Ended
      /\ DuplicateFree(at_ids)
      /\ Cardinality(Range(ToFetch(at_ids, cached_ids)) \ exists) = 1
      /\ bgError # "transport" )
    => (bgPc = "raised" /\ bgError = "mismatch")

\* C4: while a batch_get awaits its fetches, the ids it fetches remotely
\* are exactly its ids that were not cached when it was called, and none
\* of them is an id of the preceding batch_get if that one returned
\* normally (called as batch_get(A), load_cache left at its default).
C4_CacheIdempotence ==
    bgPc = "gather" =>
        /\ FetchedIds = Range(at_ids) \ DOMAIN localAtCall
        /\ (prevCall.status = "returned" /\ prevCall.load_cache)
              => FetchedIds \cap prevCall.ids = {}

C4_Witness ==
    /\ bgPc = "gather"
    /\ prevCall.status = "returned"
    /\ prevCall.load_cache
    /\ prevCall.ids = {<<"files", 1>>}
    /\ local = [k \in {<<"files", 1>>} |-> "fetched"]
    /\ at_ids = <<(<<"files", 1>>), (<<"file_sets", 1>>)>>
    /\ FetchedIds = {<<"file_sets", 1>>}

\* C5: when batch_get returns normally the keys of the returned dict are
\* exactly the requested ids, so it has one entry per distinct id.
C5_ResultCoversIds ==
    bgPc = "returned" =>
        /\ DOMAIN results = Range(at_ids)
        /\ Cardinality(DOMAIN results) = Cardinality(Range(at_ids))

C5_Witness ==
    /\ bgPc = "returned"
    /\ cached_ids # <<>>
    /\ TasksOf(CurCall) # {}
    /\ Cardinality(DOMAIN results) = 2

C9_AllOrNothing ==
    /\ (\E i \in TasksOf(CurCall) : FailedFetch(i)) => bgPc # "returned"
    /\ (bgPc = "gather" /\ gatherExc # "none") => local = localAtCall
    /\ bgPc = "raised" =>
          /\ results = EmptyDict
          /\ local = localAtCall

C9_Witness ==
    /\ bgPc = "raised"
    /\ bgError = "transport"
    /\ \E i, j \in TasksOf(CurCall) :
          tasks[i].st = "done" /\ tasks[j].st = "transport"

\* C10: once a batch_get call has ended, by returning or by raising, none
\* of the fetches it started is still in flight.
C10_NoFetchOutlivesCall ==
    Ended => \A i \in TasksOf(CurCall) : tasks[i].st # "pending"

\* C11 as stated: after a batch_get called with load_cache=False returned,
\* every id of at_ids is a key of the cache.
C11_CachedAlsoWhenDisabled ==
    (bgPc = "returned" /\ ~load_cache) => Range(at_ids) \subseteq DOMAIN local

\* C11 amended: after a batch_get returned, every id of at_ids is a key
\* of the cache if load_cache was true; if load_cache was false the cache
\* is exactly as it was when the call was made, the fetched entities
\* being in the returned dict only.
C11_CacheUpdatedUnlessDisabled ==
    bgPc = "returned" =>
        IF load_cache
        THEN Range(at_ids) \subseteq DOMAIN local
        ELSE /\ local = localAtCall
             /\ \A a \in Range(at_ids) \ DOMAIN localAtCall :
                   a \notin DOMAIN local /\ results[a] = FetchValue(a)

C11_Witness ==
    /\ bgPc = "returned"
    /\ ~load_cache
    /\ at_ids = <<(<<"file_sets", 1>>), (<<"files", 1>>)>>
    /\ DOMAIN localAtCall = {<<"file_sets", 1>>}
    /\ DOMAIN local = {<<"file_sets", 1>>}
    /\ DOMAIN results = Range(at_ids)

\* C12 as stated: after a batch_get(ids) returned, the returned entity and
\* the cache entry of every id of ids are the entity as fetched by id.
C12_FetchOverwritesPartial ==
    (bgPc = "returned" /\ load_cache) =>
        \A a \in Range(at_ids) :
            /\ results[a] = FetchValue(a)
            /\ a \in DOMAIN local /\ local[a] = FetchValue(a)

\* C12 amended: after a batch_get(ids) returned, for every id of ids that
\* was not in the cache when the call was made the returned entity and
\* the cache entry are the entity as fetched by id; for every id that was
\* in the cache, partially known or not, the returned entity and the cache
\* entry are the version the cache held, and the id was not fetched.
C12_FetchOnMissOnly ==
    (bgPc = "returned" /\ load_cache) =>
        \A a \in Range(at_ids) :
            IF a \in DOMAIN localAtCall
            THEN /\ results[a] = localAtCall[a]
                 /\ local[a] = localAtCall[a]
                 /\ a \notin FetchedIds
            ELSE /\ results[a] = FetchValue(a)
                 /\ a \in DOMAIN local
                 /\ local[a] = FetchValue(a)

C12_Witness ==
    /\ bgPc = "returned"
    /\ load_cache
    /\ at_ids = <<(<<"file_sets", 1>>), (<<"files", 1>>)>>
    /\ localAtCall = [k \in {<<"file_sets", 1>>} |-> "searched"]
    /\ results = [k \in Range(at_ids) |->
                     IF k = <<"files", 1>> THEN "fetched" ELSE "searched"]
    /\ local = results

\* ------------------------------------------------------------------------
\* Properties of add_fields_to_row
\* ------------------------------------------------------------------------

\* The fields already handled whose key the entity does not have.
AbsentHandled ==
    {i \in 1..(fieldIdx - 1) : SourceKey(name, fields[i]) \notin DOMAIN item}

\* C18: add_fields_to_row appends exactly len(fields) cells, the cell of a
\* declared field the entity does not have is the empty string, and it
\* never raises because a declared field is absent from the entity.
C18_RowComplete ==
    /\ rowPc = "returned" =>
          /\ Len(row) = Len(RowPrefix(name)) + Len(fields)
          /\ \A i \in AbsentHandled : row[Len(RowPrefix(name)) + i] = ""
    /\ rowPc = "raised" =>
          SourceKey(name, fields[fieldIdx]) \in DOMAIN item

\* C19: the value that reaches the assert of add_fields_to_row is never
\* None, whatever the entity (null values included): the assert never
\* fails and no None cell is appended.
C19_ValueNeverNull ==
    /\ rowError # "AssertionError"
    /\ \A i \in DOMAIN row : row[i] # "None"

\* ------------------------------------------------------------------------
\* Properties of the cache over a run
\* ------------------------------------------------------------------------

\* C15: the cache never evicts. In every step of preload, of
\* collect_metadata (its batch_get calls included) and of make_data_tables
\* the set of keys of the cache only grows.
C15_NeverEvicts ==
    [][DOMAIN local \subseteq DOMAIN local']_vars

\* A run in which preload, the searches and fetches of collect_metadata
\* and the hops of make_data_tables have each added keys.
C15_Witness ==
    /\ pc = "tables_made"
    /\ <<"donors", 1>> \in DOMAIN local
    /\ local[<<"donors", 1>>] = "searched"
    /\ <<"samples", 1>> \in DOMAIN local
    /\ <<"file_sets", 2>> \in DOMAIN local
    /\ LinkedIds \subseteq DOMAIN local

\* The steps that are, or run, an async_batch_get call.
InBatchGet ==
    \/ pc \in {"warm", "get_fs", "files", "donors"}
    \/ pc = "tables" /\ rowPc = "running"

\* C16 as stated: a step that changes the cache is a step of preload or
\* of a batch_get call.
C16_OnlyPreloadAndBatchGet ==
    [][local' # local => (pc = "preload" \/ InBatchGet)]_vars

\* The step keeps every key and writes search results only.
SearchInsert ==
    /\ DOMAIN local \subseteq DOMAIN local'
    /\ \A k \in DOMAIN local' :
          \/ k \in DOMAIN local /\ local'[k] = local[k]
          \/ local'[k] = "searched"

\* The step keeps every entry as it is and adds fetched entities only.
InsertOnMiss ==
    /\ DOMAIN local \subseteq DOMAIN local'
    /\ \A k \in DOMAIN local' :
          IF k \in DOMAIN local THEN local'[k] = local[k]
          ELSE local'[k] = "fetched"

\* C16 amended: the cache is changed only by preload (search results), by
\* batch_get (fetched entities, inserted for the ids it missed, every
\* existing entry left as it is) and by the two places of collect_metadata
\* that put search results in it directly: the initial files query and
\* the sample search. No other step changes it.
C16_CacheWriters ==
    [][local' # local =>
         \/ pc \in {"preload", "start", "samples"} /\ SearchInsert
         \/ InBatchGet /\ InsertOnMiss]_vars

\* The cache after a run: a file from the initial query and a sample from
\* the sample search as search results, a file set fetched by batch_get.
C16_Witness ==
    /\ pc = "tables_made"
    /\ <<"files", 1>> \in DOMAIN local
    /\ local[<<"files", 1>>] = "searched"
    /\ <<"samples", 1>> \in DOMAIN local
    /\ local[<<"samples", 1>>] = "searched"
    /\ <<"file_sets", 2>> \in DOMAIN local
    /\ local[<<"file_sets", 2>>] = "fetched"
    /\ <<"donors", 1>> \notin DOMAIN local

\* C17: duplicate ids are not an error and waste no work: a batch_get
\* whose at_ids repeat an id issues one fetch per distinct id that is not
\* cached, as the call without the duplicates does, and does not end with
\* the length-mismatch error.
C17_DuplicatesWasteNoWork ==
    /\ bgPc = "gather" =>
          Cardinality(TasksOf(CurCall))
            = Cardinality(Range(at_ids) \ DOMAIN localAtCall)
    /\ bgError # "mismatch"

\* ------------------------------------------------------------------------
\* Properties of wait_for_transfer_job
\* ------------------------------------------------------------------------

\* C20: wait_for_transfer_job polls the latest operation until it is done,
\* sleeping sleep_time_seconds between two polls of it; it returns only
\* when the operation it got is done with status SUCCESS and raises its
\* error when the operation it got is done with another status. While the
\* operation it got was not done it goes on polling.
C20_TransferPolling ==
    /\ waitPc = "returned" =>
          /\ operation.done
          /\ operation.status = "SUCCESS"
          /\ opDone /\ opStatus = "SUCCESS"
    /\ (waitPc = "raised" /\ waitError = "ValueError") =>
          /\ operation.done
          /\ operation.status # "SUCCESS"
    /\ (polls > 0 /\ operation.done /\ operation.status # "SUCCESS") =>
          (waitPc = "raised" /\ waitError = "ValueError")
    /\ (polls > 0 /\ ~operation.done /\ waitError = "none") =>
          waitPc \in {"get_job", "get_operation"}
    /\ (polls > 0 /\ waitPc = "get_operation") =>
          sleeps = <<SleepTimeSeconds>>

\* The call returned after it had found the operation not done, slept and
\* polled again.
C20_Witness ==
    /\ waitPc = "returned"
    /\ polls >= 2
    /\ operation = [done |-> TRUE, status |-> "SUCCESS"]

\* ------------------------------------------------------------------------
\* Properties of upload_data_tables
\* ------------------------------------------------------------------------
Deletes == {i \in DOMAIN requests : requests[i].method = "DELETE"}
Posts == {i \in DOMAIN requests : requests[i].method = "POST"}
UploadEnded == upPc \in {"returned", "raised"}

\* C21: a post the workspace answers with a status other than 200 makes
\* upload_data_tables raise ValueError at once: it is the last request of
\* the run, so no later table is uploaded.
C21_UploadFailureAborts ==
    \A i \in Posts :
        requests[i].status # OkStatus =>
            /\ i = Len(requests)
            /\ upPc = "raised"
            /\ upError = "ValueError"

\* A post failed while tables were still to be uploaded.
C21_Witness ==
    /\ upPc = "raised"
    /\ upError = "ValueError"
    /\ requests # <<>>
    /\ requests[Len(requests)].method = "POST"
    /\ requests[Len(requests)].status # OkStatus
    /\ upIdx < Len(data_tables)

\* No delete is issued without overwrite; with it every table's delete is
\* issued before any upload.
DeletesFirst ==
    /\ ~overwrite_tsvs => Deletes = {}
    /\ \A i \in Deletes : \A j \in Posts : i < j
    /\ (overwrite_tsvs /\ Posts # {}) =>
           \A t \in DOMAIN data_tables :
               \E i \in Deletes :
                   /\ requests[i].table = data_tables[t][1]
                   /\ requests[i].target =
                          get_name_from_tsv(data_tables[t][2])

\* Every table deleted was uploaded afterwards.
DeletedAreUploaded ==
    \A i \in Deletes :
        \E j \in Posts :
            /\ i < j
            /\ requests[j].table = requests[i].table
            /\ get_name_from_tsv(requests[j].target) = requests[i].target

SortedListOf(s, S) ==
    /\ Range(s) = S
    /\ \A i, j \in DOMAIN s : i < j => IdLess(s[i], s[j])

\* C23: what collect_metadata returns lists each of the four seen-sets, as
\* it was when the work set ran empty, in ascending order of the ids and
\* without duplicates.
C23_SortedSeenLists ==
    pc = "done" =>
        /\ SortedListOf(metadata.files, files_seen)
        /\ SortedListOf(metadata.file_sets, file_sets_seen)
        /\ SortedListOf(metadata.samples, samples_seen)
        /\ SortedListOf(metadata.donors, donors_seen)

\* A run returned lists of two or more files and file sets.
C23_Witness ==
    /\ pc = "done"
    /\ Len(metadata.files) >= 2
    /\ Len(metadata.file_sets) >= 2
    /\ Len(metadata.samples) >= 1

\* ------------------------------------------------------------------------
\* Properties of the tables make_data_tables returns
\* ------------------------------------------------------------------------
\* tests/test_metadata.py 87: the header rows of the expected tables.
ExpectedHeaders(nm) ==
    CASE nm = "files" ->
           <<"file_id", "file_path", "igvf_portal_url", "type", "summary",
             "assay_titles", "content_type", "file_name", "file_format",
             "file_format_type", "file_size", "file_md5sum", "file_set",
             "seqspecs", "workflow", "derived_from", "reference_assembly",
             "cell_type_annotation", "flowcell_id", "illumina_read_type",
             "lane", "mean_read_length", "sequencing_kit",
             "sequencing_platform", "sequencing_run",
             "transcriptome_annotation">>
      [] nm = "file_sets" ->
           <<"file_set_id", "igvf_portal_url", "type", "assay_term",
             "assay_titles", "files", "associated_phenotypes",
             "auxiliary_sets", "average_guide_coverage",
             "average_insert_size", "award", "barcode_map",
             "construct_library_sets", "control_file_sets", "exon",
             "file_set_type", "guide_type", "input_file_sets", "lab",
             "preferred_assay_title", "sample_summary", "samples", "scope",
             "selection_criteria", "sequencing_library_types",
             "small_scale_gene_list", "small_scale_loci_list", "summary",
             "targeted_genes">>
      [] nm = "samples" ->
           <<"sample_id", "igvf_portal_url", "type", "summary",
             "sample_terms", "modifications", "targeted_sample_term",
             "biosample_type", "multiplexed_samples", "pooled_from",
             "donors", "construct_library_sets", "biosample_qualifiers",
             "embryonic", "sorted_fractions",
             "donor_age_at_collection_unit_upper_bound",
             "donor_age_at_collection_unit_lower_bound",
             "donor_age_at_collection_unit", "moi">>
      [] nm = "donors" ->
           <<"donor_id", "igvf_portal_url", "type", "reported_ethnicity",
             "phenotypic_features", "phenotypic_sex", "organism_type">>

\* C24: the first line of each table make_data_tables returns is the header
\* row the test expects: the id column, the fixed columns and the canonical
\* field list of the kind, with 'workflow' after 'seqspecs' in the files
\* table and 'preferred_assay_title' after 'lab' in the file_sets table.
C24_HeadersAsExpected ==
    pc = "tables_made" =>
        \A nm \in TableNames :
            /\ nm \in DOMAIN tsvs
            /\ tsvs[nm][1] = ExpectedHeaders(nm)

\* The distinct file_set references of the files of the initial query.
InitialFileSets == {x \in FileSets : \E f \in DOMAIN initial : initial[f] = x}

\* C25: when collect_metadata returns, file_sets_seen is exactly the set of
\* the file sets reachable from the file sets of the initial files along
\* input_file_sets in zero or more steps: none is missing, none is extra.
C25_WalkCompleteAndSound ==
    pc = "done" => file_sets_seen = ReachableFrom(InitialFileSets)

\* A walk that found a file set through input_file_sets only and left a
\* file set with a reference of its own unvisited.
C25_Witness ==
    /\ pc = "done"
    /\ file_sets_seen \ InitialFileSets # {}
    /\ \E x \in FileSets \ file_sets_seen : InputFileSets(x) # {}

\* C26: when collect_metadata returns, files_seen is the ids of the files
\* of the initial query together with the files lists of the file sets in
\* file_sets_seen, and nothing else.
C26_FilesSeenExact ==
    pc = "done" =>
        files_seen = DOMAIN initial
                       \cup UNION {FilesOf(x) : x \in file_sets_seen}

\* A walk whose files_seen has a file of the initial query that no file set
\* seen lists and a file that only the files list of a file set gave.
C26_Witness ==
    /\ pc = "done"
    /\ DOMAIN initial \ UNION {FilesOf(x) : x \in file_sets_seen} # {}
    /\ files_seen \ DOMAIN initial # {}

\* The steps of the expansion of the file set fs, in the order of the code.
ExpansionSteps == <<"get_fs", "files", "samples", "donors", "loop">>

\* C27: a file set is expanded at most once in a run. A file set is never
\* unmarked; a file set marked seen is never put in the work set again; an
\* expansion starts only on a file set taken from the work set that was
\* not seen, which is marked at once; and an expansion goes through its
\* steps in order, each once, on the same file set: the batch_get of [fs],
\* the batch_get of its files, its sample search, the batch_get of its
\* donors, unless a call fails.
C27_ExpandedAtMostOnce ==
    [][/\ file_sets_seen \subseteq file_sets_seen'
       /\ (file_sets' \ file_sets) \cap file_sets_seen' = {}
       /\ (pc # "get_fs" /\ pc' = "get_fs") =>
              /\ fs' \in file_sets \ file_sets_seen
              /\ fs' \in file_sets_seen' \ file_sets'
       /\ \A i \in 1..4 :
              pc = ExpansionSteps[i] =>
                  /\ pc' \in {ExpansionSteps[i + 1], "failed"}
                  /\ fs' = fs
                  /\ file_sets_seen' = file_sets_seen]_vars

\* The expansion of a file set has found, in its input_file_sets, a file
\* set expanded before it, and has not put it in the work set.
C27_Witness ==
    /\ pc = "files"
    /\ (InputFileSets(fs) \cap file_sets_seen) \ {fs} # {}
    /\ file_sets \cap file_sets_seen = {}

\* The file set x of the portal has the key samples.
HasSamplesKey(x) == \E t \in Samples : <<x, t>> \in refs

\* The samples the search by the file set x answers with.
SearchResults(x) == {t \in Samples \cap searchable : <<x, t>> \in refs}

\* The sample step of the expansion of fs is taken.
SampleStep == pc = "samples" /\ pc' = "donors"

\* C28: samples come from the search by file set, not from the file set's
\* own list. The sample step of an expansion, when the file set has the
\* key samples, writes every result of the search by that file set to the
\* cache and adds it to samples_seen; when it has not, it changes neither
\* (no search was made); no other step changes samples_seen; and when
\* collect_metadata returns, samples_seen is exactly the union of the
\* search results of the file sets seen that have the key.
C28_SamplesBySearch ==
    /\ [][/\ SampleStep =>
                IF HasSamplesKey(fs)
                THEN /\ \A t \in SearchResults(fs) :
                            t \in DOMAIN local' /\ local'[t] = "searched"
                     /\ DOMAIN local' = DOMAIN local \cup SearchResults(fs)
                     /\ samples_seen' = samples_seen \cup SearchResults(fs)
                ELSE local' = local /\ samples_seen' = samples_seen
          /\ ~SampleStep => samples_seen' = samples_seen]_vars
    /\ [](pc = "done" =>
            samples_seen =
                UNION {SearchResults(x) :
                          x \in {y \in file_sets_seen : HasSamplesKey(y)}})

\* A run has returned that expanded a file set with the key samples whose
\* search answered with a sample, and left another file set with the key
\* unvisited.
C28_Witness ==
    /\ pc = "done"
    /\ \E x \in file_sets_seen : HasSamplesKey(x)
    /\ \E x \in FileSets \ file_sets_seen : HasSamplesKey(x)
    /\ searchable # {}
    /\ samples_seen # {}

\* ------------------------------------------------------------------------
\* Liveness of wait_for_transfer_job
\* ------------------------------------------------------------------------
Waiting == waitPc \in {"get_job", "get_operation"}
WaitEnded == waitPc \in {"returned", "raised"}

\* The calls the wait still has to make are within the calls followed.
PollsLeft ==
    /\ polls < MaxPolls
    /\ waitPc = "get_job" => jobPolls < MaxPolls

\* C29: once the job has a latest operation and the operation is done,
\* wait_for_transfer_job ends, by returning or by raising; a poll of the
\* operation that is due is made, however many were made before; and the
\* call has no other way to return: it returns only on a done operation,
\* and raises ValueError only on one, so it polls for as long as the
\* operation is not done.
C29_PollingLiveness ==
    /\ (Waiting /\ jobHasOperation /\ opDone /\ PollsLeft) ~> WaitEnded
    /\ \A n \in 0..(MaxPolls - 1) :
           (waitPc = "get_operation" /\ polls = n) ~>
               (polls = n + 1 \/ waitPc = "raised")
    /\ [](waitPc = "returned" => opDone)
    /\ []((waitPc = "raised" /\ waitError = "ValueError") => opDone)
    /\ []((Waiting /\ polls = MaxPolls) => ~operation.done)

\* The call has ended on an operation that got done only after the call
\* had polled it, not done, as often as the polls are followed less one.
C29_Witness ==
    /\ WaitEnded
    /\ waitError \in {"none", "ValueError"}
    /\ polls = MaxPolls
    /\ operation.done

\* ------------------------------------------------------------------------
\* Properties of main
\* ------------------------------------------------------------------------
\* make_data_tables is being run or has been run.
TablesStarted == pc \in {"tables", "upload"}

\* C30: when make_data_tables is run, and so when a data table is uploaded,
\* every transfer job main created, one per source bucket of the
\* manifests, has been waited for and its latest operation is done with
\* status SUCCESS, whatever the number of source buckets.
C30_AllJobsDoneBeforeTables ==
    (TablesStarted \/ Posts # {}) =>
        /\ Range(transfer_job_props) = DOMAIN manifests
        /\ \A b \in Range(transfer_job_props) :
              /\ InSeq(b, waited)
              /\ jobs[b].done
              /\ jobs[b].status = "SUCCESS"

\* The jobs the step creates.
JobsCreated == DOMAIN jobs' \ DOMAIN jobs

\* The manifest of the source bucket b is at the location l.
ManifestAt(l, b) == l \in DOMAIN bucketTsvs /\ bucketTsvs[l] = manifests[b]

\* C31: when main creates the transfer job of a source bucket, the manifest
\* of that bucket is already at the location the job names as its transfer
\* manifest, gs://<manifest_bucket>/<job name>.tsv; so every transfer job
\* that exists has its manifest uploaded.
C31_ManifestUploadedBeforeJob ==
    /\ [][\A b \in JobsCreated : ManifestAt(jobs'[b].manifest, b)]_vars
    /\ [](\A b \in DOMAIN jobs : ManifestAt(jobs[b].manifest, b))

\* The jobs of two source buckets were created, each after its manifest.
C31_Witness ==
    /\ Cardinality(DOMAIN jobs) = 2
    /\ Cardinality(DOMAIN bucketTsvs) = 2
    /\ pc = "wait_jobs"

\* A step of the loop takes a file set out of the work set.
PopStep == pc = "loop" /\ file_sets' # file_sets

\* C32: in every state of collect_metadata the work set and file_sets_seen
\* are disjoint, and so every pop gives a file set that is not seen: the
\* step marks it and starts its expansion, the skip of a seen file set is
\* never taken.
C32_FrontierDisjointFromSeen ==
    /\ [](file_sets \cap file_sets_seen = {})
    /\ [][PopStep =>
            /\ pc' = "get_fs"
            /\ fs' \in file_sets \ file_sets_seen
            /\ file_sets_seen' = file_sets_seen \cup {fs'}]_vars

\* The loop is at its head with file sets pending and file sets seen, one
\* of the seen ones referring to a seen one.
C32_Witness ==
    /\ pc = "loop"
    /\ file_sets # {}
    /\ \E x \in file_sets_seen : InputFileSets(x) \cap file_sets_seen # {}

\* collect_metadata has returned its lists.
Returned == pc \in {"done", "tables", "tables_made"}

\* C33: once collect_metadata has returned, every id of the four lists it
\* returned is a key of the cache, so no row of make_data_tables (and no
\* line of a manifest) fails on an id the cache does not hold.
C33_SeenIdsAreCached ==
    /\ Returned =>
          /\ Range(metadata.files) \subseteq DOMAIN local
          /\ Range(metadata.file_sets) \subseteq DOMAIN local
          /\ Range(metadata.samples) \subseteq DOMAIN local
          /\ Range(metadata.donors) \subseteq DOMAIN local
    /\ rowError # "KeyError"

\* make_data_tables has read the entities of lists of all four kinds from
\* the cache.
C33_Witness ==
    /\ pc = "tables_made"
    /\ metadata.files # <<>>
    /\ metadata.file_sets # <<>>
    /\ metadata.samples # <<>>
    /\ metadata.donors # <<>>
    /\ rowsDone = Len(AllSeen)

\* Every fetch the current call started has its entity.
EveryFetchSucceeded == \A i \in TasksOf(CurCall) : tasks[i].st = "done"

\* C34: the length check of async_batch_get never fails. No call ends with
\* the length-mismatch ValueError; a call all of whose fetches succeeded
\* returns, and the dict it returns has as many keys as at_ids has
\* distinct ids, whatever the ids (repeated or not), the cache and
\* load_cache.
C34_LengthCheckNeverFails ==
    /\ bgError # "mismatch"
    /\ (bgPc \in {"returned", "raised"} /\ EveryFetchSucceeded) =>
          /\ bgPc = "returned"
          /\ Cardinality(DOMAIN results) = Cardinality(Range(at_ids))

\* A call with load_cache false that fetched has returned, its ids holding
\* the same id twice or a cached id.
C34_Witness ==
    /\ bgPc = "returned"
    /\ ~load_cache
    /\ TasksOf(CurCall) # {}
    /\ Len(at_ids) > Cardinality(DOMAIN results) \/ cached_ids # <<>>

====
